---- MODULE Spec2Model ----
(***************************************************************************)
(* The live voice assistant of src/components/LiveAssistant.tsx: the       *)
(* connect()/disconnect() lifecycle, the mute flag, the capture callback   *)
(* and the gapless playback scheduler, as a state machine whose steps are  *)
(* the component's handlers and callbacks (one JavaScript task each).      *)
(*                                                                         *)
(* Every call of connect() is an "attempt", numbered 1, 2, ...  An attempt *)
(* owns what its call created: two AudioContexts, a microphone stream, a   *)
(* session promise, the capture nodes, and the closure that captured the   *)
(* render's isMuted.  The component's refs hold attempt numbers (0: null). *)
(*                                                                         *)
(* Further down: the path of a captured frame from onaudioprocess to       *)
(* sendRealtimeInput, the audio codecs of services/audioUtils, and the     *)
(* request functions of src/services/geminiService.ts with their rate      *)
(* limiter.  Each part has its own variables and its own specification.    *)
(*                                                                         *)
(* Last: the task list of src/components/SmartTaskListener.tsx (from a     *)
(* recording to the list, the reminders, the recurring tasks) and the task *)
(* creation protocol of ChatBot.handleSend, over the rows of db.tasks.     *)
(***************************************************************************)
EXTENDS Integers, Sequences, FiniteSets, TLC

\* Bounds of the model: the connect() calls, the audio chunks received and the
\* range of an output context's clock.
MaxAttempts == 2
MaxChunks == 3
MaxClock == 3

Attempts == 1..MaxAttempts
\* SpecPlayback follows the playback scheduler through the component's first
\* session: one connect() call.
FirstSession == {1}
\* AudioBuffer.duration of an inbound chunk, in clock units.
Durations == {1, 2}

VARIABLES
    isConnected,        \* useState(false), line 7
    isMuted,            \* useState(false), line 8
    inputContextRef,    \* line 12
    outputContextRef,   \* line 13
    streamRef,          \* line 16
    processorRef,       \* line 17
    sourceRef,          \* line 18
    nextStartTimeRef,   \* line 21
    scheduledSourcesRef,\* line 22: the AudioBufferSourceNodes started and not flushed
    sessionRef,         \* line 24
    nAttempts,          \* number of connect() calls so far
    pc,                 \* per attempt: where its connect() call stands
    capturedMuted,      \* per attempt: the isMuted its closures captured
    inputCtx,           \* per attempt: state of its 16 kHz AudioContext
    outputCtx,          \* per attempt: state of its 24 kHz AudioContext
    stream,             \* per attempt: state of its MediaStream
    session,            \* per attempt: state of its session (promise)
    closeQueued,        \* per attempt: a then(s => s.close()) waits on the pending promise
    capture,            \* per attempt: its source/processor nodes
    captureCtx,         \* per attempt: the input context its nodes were created on
    clock,              \* per attempt: currentTime of its output context
    pendingDecodes,     \* onmessage calls suspended at await decodeAudioData
    nChunks,            \* audio chunks received so far
    flushedSince,       \* sources stopped by interruptions since the last source started (-1: no interruption)
    stamped,            \* history: whether chunks are numbered in arrival order
    interruptedUpTo,    \* history: the number of the last chunk that arrived before
                        \* the interruption processed last
    lastEvent           \* the handler that ran last, and what it did

\* From onaudioprocess to the transport (lines 71-85).
VARIABLES
    promiseResolved,    \* sessionPromise (line 47) has resolved
    reactions,          \* then-callbacks registered on the pending promise, in order
    microtasks,         \* then-callbacks queued to run, in order
    sentFrames,         \* the frames handed to session.sendRealtimeInput, in order
    nFrames             \* onaudioprocess callbacks so far

\* The codecs of services/audioUtils.
VARIABLES
    codecStage,         \* "idle", "input", "encoded", "decoded"
    samples,            \* a Float32Array, in units of 1/Denom
    pcm,                \* the Int16Array float32ToPCM16 returned
    bytes,              \* the bytes of an ArrayBuffer
    base64,             \* the string arrayBufferToBase64 returned, one character per element
    decoded             \* the Uint8Array base64ToUint8Array returned

\* src/services/geminiService.ts.
VARIABLES
    apiKey,             \* line 9
    rateLimitMap,       \* line 24
    dateNow,            \* Date.now()
    passed,             \* per action key: the calls that passed checkRateLimit, as [t, n]
    nCalls,             \* calls (or bursts of calls) made so far
    nAdvances,          \* times the clock was advanced
    lastCall            \* the call that returned last, and what it did

\* SmartTaskListener.tsx, ChatBot.tsx and the TaskFlowDB they share.
VARIABLES
    tasks,              \* SmartTaskListener: useState<Task[]>([]), line 18
    processingState,    \* SmartTaskListener: useState('idle'), line 17
    pendingToggles,     \* toggleTask calls suspended at await db.tasks.add
    dbTasks,            \* the rows of db.tasks (primary key: id)
    dbRecordings,       \* the number of rows of db.recordings
    permission,         \* Notification.permission
    notifications,      \* the Notifications created, in order
    wallClock,          \* new Date()
    nIds,               \* ids drawn from crypto.randomUUID() and Math.random()
    messages,           \* ChatBot: useState<Message[]>([])
    nOps,               \* handler calls so far
    lastOp              \* the handler that ran last, and what it did

taskflow == <<tasks, processingState, pendingToggles, dbTasks, dbRecordings, permission,
              notifications, wallClock, nIds, messages, nOps, lastOp>>
transport == <<promiseResolved, reactions, microtasks, sentFrames, nFrames>>
codec == <<codecStage, samples, pcm, bytes, base64, decoded>>
service == <<apiKey, rateLimitMap, dateNow, passed, nCalls, nAdvances, lastCall>>

vars == <<isConnected, isMuted, inputContextRef, outputContextRef, streamRef,
          processorRef, sourceRef, nextStartTimeRef, scheduledSourcesRef, sessionRef,
          nAttempts, pc, capturedMuted, inputCtx, outputCtx, stream, session,
          closeQueued, capture, captureCtx, clock, pendingDecodes, nChunks,
          flushedSince, stamped, interruptedUpTo, lastEvent, transport, codec,
          service, taskflow>>

refs == <<inputContextRef, outputContextRef, streamRef, processorRef, sourceRef, sessionRef>>
arrivals == <<stamped, interruptedUpTo>>
playback == <<nextStartTimeRef, scheduledSourcesRef, pendingDecodes, nChunks, flushedSince,
              arrivals>>
closures == <<nAttempts, pc, capturedMuted>>
component == <<isConnected, isMuted, refs, closures, inputCtx, outputCtx, stream, session,
               closeQueued, capture, captureCtx, clock, playback, lastEvent>>

\* The component as mounted: the initial values of its state and refs.
Mounted ==
    /\ isConnected = FALSE
    /\ isMuted = FALSE
    /\ inputContextRef = 0
    /\ outputContextRef = 0
    /\ streamRef = 0
    /\ processorRef = 0
    /\ sourceRef = 0
    /\ nextStartTimeRef = 0
    /\ scheduledSourcesRef = <<>>
    /\ sessionRef = 0
    /\ nAttempts = 0
    /\ pc = [a \in Attempts |-> "idle"]
    /\ capturedMuted = [a \in Attempts |-> FALSE]
    /\ inputCtx = [a \in Attempts |-> "none"]
    /\ outputCtx = [a \in Attempts |-> "none"]
    /\ stream = [a \in Attempts |-> "none"]
    /\ session = [a \in Attempts |-> "none"]
    /\ closeQueued = [a \in Attempts |-> FALSE]
    /\ capture = [a \in Attempts |-> "none"]
    /\ captureCtx = [a \in Attempts |-> 0]
    /\ clock = [a \in Attempts |-> 0]
    /\ pendingDecodes = <<>>
    /\ nChunks = 0
    /\ flushedSince = -1
    /\ interruptedUpTo = 0
    /\ lastEvent = [op |-> "init"]

\* The chunks are not numbered: the arrival numbers stay 0.
Unstamped == stamped = FALSE

\* No frame captured yet: the session promise is pending, nothing is queued.
NoFrames ==
    /\ promiseResolved = FALSE
    /\ reactions = <<>>
    /\ microtasks = <<>>
    /\ sentFrames = <<>>
    /\ nFrames = 0

\* No codec has been called.
CodecIdle ==
    /\ codecStage = "idle"
    /\ samples = <<>>
    /\ pcm = <<>>
    /\ bytes = <<>>
    /\ base64 = <<>>
    /\ decoded = <<>>

\* The keys checkRateLimit is called with (lines 119, 152, 214).
ActionKeys == {"transcribe", "analyze", "chat"}

\* rateLimitMap.get(key) of a key the map does not hold (an entry's count is 1 or more).
NoEntry == [count |-> 0, resetTime |-> 0]

\* geminiService.ts as loaded, around `key` in process.env.API_KEY: the rate
\* limiter's map is empty (line 24), no call has been made.
ServiceLoaded(key) ==
    /\ apiKey = key
    /\ rateLimitMap = [k \in ActionKeys |-> NoEntry]
    /\ dateNow = 0
    /\ passed = [k \in ActionKeys |-> <<>>]
    /\ nCalls = 0
    /\ nAdvances = 0
    /\ lastCall = [fn |-> "none"]

\* The task list, the chat and the database before anything was recorded,
\* typed or saved; Notification.permission was granted.
NoTasks ==
    /\ tasks = <<>>
    /\ processingState = "idle"
    /\ pendingToggles = <<>>
    /\ dbTasks = {}
    /\ dbRecordings = 0
    /\ permission = "granted"
    /\ notifications = <<>>
    /\ wallClock = 0
    /\ nIds = 0
    /\ messages = <<>>
    /\ nOps = 0
    /\ lastOp = [op |-> "none"]

Init ==
    /\ Mounted
    /\ Unstamped
    /\ NoFrames
    /\ CodecIdle
    /\ NoTasks
    /\ ServiceLoaded(<<"k">>)

\* The Session State of the controller, read off the component's state: the
\* component keeps only isConnected and isMuted, so Connecting is "a connect()
\* call is still under way and the session is not open".
ControllerState ==
    IF isConnected THEN (IF isMuted THEN "Muted" ELSE "Connected")
    ELSE IF \E a \in Attempts : pc[a] = "awaitMic" \/ session[a] = "pending"
         THEN "Connecting"
         ELSE "Disconnected"

(***************************************************************************)
(* connect(), lines 28-142                                                 *)
(***************************************************************************)

\* connect() up to its first await (lines 29-42): the API key is configured,
\* both AudioContexts are created and stored in the refs, then the call waits
\* for getUserMedia.  The Connect Live button that invokes it is rendered while
\* isConnected is false (lines 182-189); connect() itself tests no state.
ConnectStart(allowed) ==
    /\ ~isConnected
    /\ nAttempts + 1 \in allowed
    /\ LET a == nAttempts + 1 IN
        /\ nAttempts' = a
        /\ pc' = [pc EXCEPT ![a] = "awaitMic"]
        /\ capturedMuted' = [capturedMuted EXCEPT ![a] = isMuted]
        /\ inputCtx' = [inputCtx EXCEPT ![a] = "running"]
        /\ outputCtx' = [outputCtx EXCEPT ![a] = "running"]
        /\ clock' = [clock EXCEPT ![a] = 0]
        /\ inputContextRef' = a
        /\ outputContextRef' = a
        /\ lastEvent' = [op |-> "connect", att |-> a, state |-> ControllerState]
    /\ UNCHANGED <<taskflow, transport, codec, service, isConnected, isMuted, streamRef, processorRef, sourceRef, sessionRef,
                   stream, session, closeQueued, capture, captureCtx, playback>>

\* getUserMedia resolves (lines 42-136): the stream is stored, ai.live.connect is
\* called without await and its promise is stored in sessionRef.
MicGranted(a) ==
    /\ pc[a] = "awaitMic"
    /\ pc' = [pc EXCEPT ![a] = "done"]
    /\ stream' = [stream EXCEPT ![a] = "live"]
    /\ streamRef' = a
    /\ session' = [session EXCEPT ![a] = "pending"]
    /\ sessionRef' = a
    /\ lastEvent' = [op |-> "micGranted"]
    /\ UNCHANGED <<taskflow, transport, codec, service, isConnected, isMuted, inputContextRef, outputContextRef, processorRef,
                   sourceRef, nAttempts, capturedMuted, inputCtx, outputCtx, closeQueued,
                   capture, captureCtx, clock, playback>>

\* getUserMedia rejects: the catch block (lines 138-141) logs and returns.
MicDenied(a) ==
    /\ pc[a] = "awaitMic"
    /\ pc' = [pc EXCEPT ![a] = "failed"]
    /\ lastEvent' = [op |-> "micDenied", att |-> a]
    /\ UNCHANGED <<taskflow, transport, codec, service, isConnected, isMuted, refs, nAttempts, capturedMuted, inputCtx,
                   outputCtx, stream, session, closeQueued, capture, captureCtx, clock,
                   playback>>

\* The session promise rejects.  It was not awaited and has no rejection
\* handler (lines 47, 136), so no code of the component runs.
SessionRejected(a) ==
    /\ session[a] = "pending"
    /\ session' = [session EXCEPT ![a] = "rejected"]
    /\ lastEvent' = [op |-> "sessionRejected", att |-> a]
    /\ UNCHANGED <<taskflow, transport, codec, service, isConnected, isMuted, refs, closures, inputCtx, outputCtx, stream,
                   closeQueued, capture, captureCtx, clock, playback>>

\* onopen (lines 57-89), then the promise resolves and the then-callbacks that
\* disconnect() registered while it was pending run (line 157): s.close().
\* The capture nodes are created on the context inputContextRef holds now, from
\* the stream of the attempt whose callback this is.
OnOpen(a) ==
    /\ session[a] = "pending"
    /\ isConnected' = TRUE
    /\ IF inputContextRef = 0
       THEN UNCHANGED <<capture, captureCtx, sourceRef, processorRef>>
       ELSE /\ capture' = [capture EXCEPT ![a] = "connected"]
            /\ captureCtx' = [captureCtx EXCEPT ![a] = inputContextRef]
            /\ sourceRef' = a
            /\ processorRef' = a
    /\ session' = [session EXCEPT ![a] = IF closeQueued[a] THEN "closing" ELSE "open"]
    /\ closeQueued' = [closeQueued EXCEPT ![a] = FALSE]
    /\ lastEvent' = [op |-> "onopen", att |-> a]
    /\ UNCHANGED <<taskflow, transport, codec, service, isMuted, inputContextRef, outputContextRef, streamRef, sessionRef,
                   closures, inputCtx, outputCtx, stream, clock, playback>>

(***************************************************************************)
(* The capture callback and the mute button                                *)
(***************************************************************************)

\* The isMuted that attempt a's onaudioprocess reads (line 72): the variable of
\* the render whose connect() created the callback.
MutedSeenBy(a) == capturedMuted[a]

\* onaudioprocess (lines 71-85) of attempt a's processor: fires while the nodes
\* are connected and their context runs.  The session promise of a is resolved
\* (onopen has run), so the then-callback calls sendRealtimeInput at once.
AudioProcess(a) ==
    /\ capture[a] = "connected"
    /\ inputCtx[captureCtx[a]] = "running"
    /\ lastEvent' = [op |-> "onaudioprocess", att |-> a, muted |-> isMuted,
                     sent |-> ~MutedSeenBy(a)]
    /\ UNCHANGED <<taskflow, transport, codec, service, isConnected, isMuted, refs, closures, inputCtx, outputCtx, stream,
                   session, closeQueued, capture, captureCtx, clock, playback>>

\* The mute button (lines 192-197), rendered while isConnected.
ToggleMute ==
    /\ isConnected
    /\ isMuted' = ~isMuted
    /\ lastEvent' = [op |-> "toggleMute"]
    /\ UNCHANGED <<taskflow, transport, codec, service, isConnected, refs, closures, inputCtx, outputCtx, stream, session,
                   closeQueued, capture, captureCtx, clock, playback>>

(***************************************************************************)
(* disconnect(), lines 144-162                                             *)
(***************************************************************************)

\* A call through a ref without the optional chaining: a null ref throws.
ThrowsOnNull(ref) == ref = 0

\* `ref.current?.m()` (lines 146-157): a null ref skips the call, nothing is thrown.
Throws(ref) == FALSE

\* The statement of disconnect() that throws, in source order (7: none does).
ThrowAt ==
    IF Throws(streamRef) THEN 1
    ELSE IF Throws(sourceRef) THEN 2
    ELSE IF Throws(processorRef) THEN 3
    ELSE IF Throws(inputContextRef) THEN 4
    ELSE IF Throws(outputContextRef) THEN 5
    ELSE IF Throws(sessionRef) THEN 6
    ELSE 7

\* Statement k of disconnect(), a call through `ref`, is executed.
Runs(k, ref) == ref # 0 /\ k < ThrowAt

\* What one disconnect() call releases, in the order of its statements.  The
\* session is closed by a then-callback (line 157): it runs after the handler's
\* synchronous statements, and only when the promise is already resolved.
ReleaseOrder(sess) ==
    (IF Runs(1, streamRef) THEN <<"stream">> ELSE <<>>)
    \o (IF Runs(2, sourceRef) THEN <<"source">> ELSE <<>>)
    \o (IF Runs(3, processorRef) THEN <<"processor">> ELSE <<>>)
    \o (IF Runs(4, inputContextRef) THEN <<"inputContext">> ELSE <<>>)
    \o (IF Runs(5, outputContextRef) THEN <<"outputContext">> ELSE <<>>)
    \o (IF Runs(6, sessionRef) /\ sess[sessionRef] = "open" THEN <<"session">> ELSE <<>>)

\* disconnect(): `sess` is the sessions' state when it is called, `cause` the
\* caller (the End Session button, onclose, onerror), `att` the attempt whose
\* callback called it (0: the button), `wasOpen` whether that session was open.
\* It releases what the refs hold; nextStartTimeRef and scheduledSourcesRef are
\* not touched, and no ref is reset.
disconnect(sess, cause, att, wasOpen) ==
    /\ stream' = IF Runs(1, streamRef) THEN [stream EXCEPT ![streamRef] = "stopped"] ELSE stream
    /\ capture' = [x \in Attempts |->
                     IF (Runs(2, sourceRef) /\ x = sourceRef) \/ (Runs(3, processorRef) /\ x = processorRef)
                     THEN "disconnected" ELSE capture[x]]
    /\ inputCtx' = IF Runs(4, inputContextRef)
                   THEN [inputCtx EXCEPT ![inputContextRef] = "closed"] ELSE inputCtx
    /\ outputCtx' = IF Runs(5, outputContextRef)
                    THEN [outputCtx EXCEPT ![outputContextRef] = "closed"] ELSE outputCtx
    /\ session' = IF Runs(6, sessionRef) /\ sess[sessionRef] = "open"
                  THEN [sess EXCEPT ![sessionRef] = "closing"] ELSE sess
    /\ closeQueued' = IF Runs(6, sessionRef) /\ sess[sessionRef] = "pending"
                      THEN [closeQueued EXCEPT ![sessionRef] = TRUE] ELSE closeQueued
    /\ isConnected' = IF ThrowAt = 7 THEN FALSE ELSE isConnected
    /\ isMuted' = IF ThrowAt = 7 THEN FALSE ELSE isMuted
    /\ lastEvent' = [op |-> "disconnect", cause |-> cause, att |-> att, wasOpen |-> wasOpen,
                     order |-> ReleaseOrder(sess), threw |-> ThrowAt < 7,
                     again |-> lastEvent.op = "disconnect"]
    /\ UNCHANGED <<taskflow, transport, codec, service, refs, closures, captureCtx, clock, playback>>

\* The End Session button (lines 199-205), rendered while isConnected.
UserDisconnect ==
    /\ isConnected
    /\ disconnect(session, "user", 0, FALSE)

\* onclose (lines 125-128): the session's socket has closed, by the server, after
\* an error, or after session.close().
OnClose(a) ==
    /\ session[a] \in {"open", "closing", "errored"}
    /\ disconnect([session EXCEPT ![a] = "closed"], "onclose", a, session[a] = "open")

\* onerror (lines 129-133): a transport error, while connecting or connected.
OnError(a) ==
    /\ session[a] \in {"pending", "open"}
    /\ disconnect([session EXCEPT ![a] = "errored"], "onerror", a, session[a] = "open")

(***************************************************************************)
(* onmessage, lines 90-124: the playback scheduler                         *)
(***************************************************************************)

Max(x, y) == IF x < y THEN y ELSE x

\* The sequence s without its i-th element.
RemoveAt(s, i) == SubSeq(s, 1, i - 1) \o SubSeq(s, i + 1, Len(s))

\* A scheduler that always starts at the clock time, ignoring the cursor.
StartAtNow(cursor, now) == now

\* Lines 105-110: where the next source starts, given nextStartTimeRef and
\* ctx.currentTime.
StartAt(cursor, now) == IF cursor < now THEN now ELSE cursor

\* An interruption that leaves the cursor where it is.
CursorKept(cursor) == cursor

\* Line 122: nextStartTimeRef after an interruption.
CursorAfterInterruption(cursor) == 0

\* Lines 118-120: every source of the list is stopped (a throwing stop() is caught).
StopAll(list) == [i \in DOMAIN list |-> [list[i] EXCEPT !.state = "stopped"]]

\* Line 121: scheduledSourcesRef after an interruption.
ListAfterInterruption(list) == <<>>

\* onmessage for a message that carries an interruption and no audio (lines
\* 116-123): the sources are stopped, the list is emptied, the cursor is reset.
OnInterrupted(a) ==
    /\ session[a] \in {"open", "closing"}
    /\ scheduledSourcesRef' = ListAfterInterruption(StopAll(scheduledSourcesRef))
    /\ nextStartTimeRef' = CursorAfterInterruption(nextStartTimeRef)
    /\ flushedSince' = Max(flushedSince, 0) + Len(scheduledSourcesRef)
    /\ interruptedUpTo' = IF stamped THEN nChunks ELSE 0
    /\ lastEvent' = [op |-> "interrupted", before |-> scheduledSourcesRef,
                     stopped |-> StopAll(scheduledSourcesRef)]
    /\ UNCHANGED <<taskflow, transport, codec, service, isConnected, isMuted, refs, closures, inputCtx, outputCtx, stream,
                   session, closeQueued, capture, captureCtx, clock, pendingDecodes,
                   nChunks, stamped>>

\* onmessage with an audio chunk of duration dur (lines 92-98): the output
\* context is read from the ref and the handler suspends at decodeAudioData.
OnAudioChunk(a, dur, interrupted) ==
    /\ session[a] \in {"open", "closing"}
    /\ outputContextRef # 0
    /\ nChunks < MaxChunks
    /\ nChunks' = nChunks + 1
    /\ pendingDecodes' = Append(pendingDecodes,
                                [ctx |-> outputContextRef, dur |-> dur,
                                 interrupted |-> interrupted,
                                 seq |-> IF stamped THEN nChunks + 1 ELSE 0])
    /\ lastEvent' = [op |-> "onmessage"]
    /\ UNCHANGED <<taskflow, transport, codec, service, isConnected, isMuted, refs, closures, inputCtx, outputCtx, stream,
                   session, closeQueued, capture, captureCtx, clock, nextStartTimeRef,
                   scheduledSourcesRef, flushedSince, arrivals>>

\* A handler that starts the source and leaves the cursor at its start.
CursorAtStart(start, dur) == start

\* Line 111: nextStartTimeRef after a source of duration dur was started at start.
CursorAfterStart(start, dur) == start + dur

\* The decode resolves and onmessage runs to its end (lines 100-123): the source
\* is started at the cursor, caught up to the clock of the context the handler
\* read; the cursor advances by the duration; then the message's interruption,
\* if it carries one, is handled.
DecodeDone(i) ==
    /\ i \in DOMAIN pendingDecodes
    /\ LET p == pendingDecodes[i]
           now == clock[p.ctx]
           start == StartAt(nextStartTimeRef, now)
           src == [ctx |-> p.ctx, start |-> start, dur |-> p.dur, at |-> now,
                   afterFlush |-> flushedSince, state |-> "started", seq |-> p.seq]
           list == Append(scheduledSourcesRef, src)
       IN  /\ pendingDecodes' = RemoveAt(pendingDecodes, i)
           /\ IF p.interrupted
              THEN /\ scheduledSourcesRef' = ListAfterInterruption(StopAll(list))
                   /\ nextStartTimeRef' = CursorAfterInterruption(CursorAfterStart(start, p.dur))
                   /\ flushedSince' = Len(list)
                   /\ interruptedUpTo' = Max(interruptedUpTo, p.seq)
                   /\ lastEvent' = [op |-> "interrupted", before |-> list,
                                    stopped |-> StopAll(list)]
              ELSE /\ scheduledSourcesRef' = list
                   /\ nextStartTimeRef' = CursorAfterStart(start, p.dur)
                   /\ flushedSince' = -1
                   /\ UNCHANGED interruptedUpTo
                   /\ lastEvent' = [op |-> "scheduled",
                                    afterDrop |-> lastEvent.op = "decodeFailed"]
    /\ UNCHANGED <<taskflow, transport, codec, service, isConnected, isMuted, refs, closures, inputCtx, outputCtx, stream,
                   session, closeQueued, capture, captureCtx, clock, nChunks, stamped>>

\* A handler that moves the cursor past a chunk it could not decode.
CursorAdvanced(cursor, dur) == cursor + dur

\* Lines 95-98: the await throws, so lines 100-112 are not reached and
\* nextStartTimeRef stays as it is.
CursorAfterDecodeError(cursor, dur) == cursor

\* The decode rejects: the await (lines 95-98) throws and onmessage ends there,
\* with nothing to catch it.  The chunk is dropped, and with it the handling of
\* the interruption the message may carry (lines 116-123).
DecodeFailed(i) ==
    /\ i \in DOMAIN pendingDecodes
    /\ pendingDecodes' = RemoveAt(pendingDecodes, i)
    /\ nextStartTimeRef' = CursorAfterDecodeError(nextStartTimeRef, pendingDecodes[i].dur)
    /\ lastEvent' = [op |-> "decodeFailed", cursor |-> nextStartTimeRef,
                     list |-> scheduledSourcesRef, connected |-> isConnected]
    /\ UNCHANGED <<taskflow, transport, codec, service, isConnected, isMuted, refs, closures, inputCtx, outputCtx, stream,
                   session, closeQueued, capture, captureCtx, clock, nChunks,
                   scheduledSourcesRef, flushedSince, arrivals>>

\* The clock of a running output context advances.  Only onmessage reads a
\* clock, of the context outputContextRef holds or of the one a suspended
\* handler has read: the clock of any other context is never read again.
Tick(a) ==
    /\ outputCtx[a] = "running"
    /\ outputContextRef = a \/ \E i \in DOMAIN pendingDecodes : pendingDecodes[i].ctx = a
    /\ clock[a] < MaxClock
    /\ clock' = [clock EXCEPT ![a] = @ + 1]
    /\ UNCHANGED <<taskflow, transport, codec, service, isConnected, isMuted, refs, closures, inputCtx, outputCtx, stream,
                   session, closeQueued, capture, captureCtx, playback, lastEvent>>

Lifecycle ==
    \/ ConnectStart(Attempts)
    \/ \E a \in Attempts : MicGranted(a)
    \/ \E a \in Attempts : MicDenied(a)
    \/ \E a \in Attempts : SessionRejected(a)
    \/ \E a \in Attempts : OnOpen(a)
    \/ \E a \in Attempts : AudioProcess(a)
    \/ ToggleMute
    \/ UserDisconnect
    \/ \E a \in Attempts : OnClose(a)
    \/ \E a \in Attempts : OnError(a)

Spec == Init /\ [][Lifecycle]_vars

\* The whole component, with the playback scheduler.
Next ==
    \/ ConnectStart(FirstSession)
    \/ \E a \in Attempts : MicGranted(a)
    \/ \E a \in Attempts : MicDenied(a)
    \/ \E a \in Attempts : SessionRejected(a)
    \/ \E a \in Attempts : OnOpen(a)
    \/ \E a \in Attempts : AudioProcess(a)
    \/ ToggleMute
    \/ UserDisconnect
    \/ \E a \in Attempts : OnClose(a)
    \/ \E a \in Attempts : OnError(a)
    \/ \E a \in Attempts : OnInterrupted(a)
    \/ \E a \in Attempts, dur \in Durations, interrupted \in BOOLEAN :
          OnAudioChunk(a, dur, interrupted)
    \/ \E i \in 1..MaxChunks : DecodeDone(i)
    \/ \E i \in 1..MaxChunks : DecodeFailed(i)
    \/ \E a \in Attempts : Tick(a)

SpecPlayback == Init /\ [][Next]_vars

\* The same steps, with the chunks numbered in their order of arrival.
InitOrder ==
    /\ Mounted
    /\ stamped = TRUE
    /\ NoFrames
    /\ CodecIdle
    /\ NoTasks
    /\ ServiceLoaded(<<"k">>)

SpecOrder == InitOrder /\ [][Next]_vars

\* The playback scheduler through every connect() call, not only the first,
\* for chunks of duration 1 that decode and carry no interruption.
Reconnect ==
    \/ Lifecycle
    \/ \E a \in Attempts : OnAudioChunk(a, 1, FALSE)
    \/ \E i \in 1..MaxChunks : DecodeDone(i)
    \/ \E a \in Attempts : Tick(a)

SpecReconnect == Init /\ [][Reconnect]_vars

(***************************************************************************)
(* From onaudioprocess to sendRealtimeInput, lines 71-85                   *)
(***************************************************************************)

\* The onaudioprocess callbacks followed.
MaxFrames == 4

\* A then-callback put in front of the callbacks that already wait.
PushFront(queue, f) == <<f>> \o queue

\* Line 77, sessionPromise.then(callback): the callback joins, at their end, the
\* callbacks that wait for the pending promise, or the microtasks to run.
Enqueue(queue, f) == Append(queue, f)

\* onaudioprocess (lines 71-85), followed to the transport: the frame is encoded
\* and a then-callback that will send it is registered on sessionPromise.  A
\* callback is a task: it starts when no microtask is left to run.
CaptureFrame(a) ==
    /\ capture[a] = "connected"
    /\ inputCtx[captureCtx[a]] = "running"
    /\ microtasks = <<>>
    /\ nFrames < MaxFrames
    /\ nFrames' = nFrames + 1
    /\ LET f == [n |-> nFrames + 1, muted |-> isMuted, deferred |-> ~promiseResolved]
       IN  IF MutedSeenBy(a)
           THEN UNCHANGED <<reactions, microtasks>>
           ELSE IF promiseResolved
                THEN microtasks' = Enqueue(microtasks, f) /\ UNCHANGED reactions
                ELSE reactions' = Enqueue(reactions, f) /\ UNCHANGED microtasks
    /\ lastEvent' = [op |-> "onaudioprocess", att |-> a, muted |-> isMuted,
                     sent |-> ~MutedSeenBy(a)]
    /\ UNCHANGED <<taskflow, promiseResolved, sentFrames, codec, service, isConnected, isMuted, refs,
                   closures, inputCtx, outputCtx, stream, session, closeQueued, capture,
                   captureCtx, clock, playback>>

\* The promise ai.live.connect returned (line 47) resolves, some time after
\* onopen: the callbacks that waited for it are queued, in their order.
PromiseResolved(a) ==
    /\ session[a] = "open"
    /\ ~promiseResolved
    /\ promiseResolved' = TRUE
    /\ microtasks' = microtasks \o reactions
    /\ reactions' = <<>>
    /\ UNCHANGED <<taskflow, sentFrames, nFrames, codec, service, component>>

\* The first queued then-callback runs (lines 78-83): session.sendRealtimeInput.
SendRealtimeInput ==
    /\ microtasks # <<>>
    /\ sentFrames' = Append(sentFrames, Head(microtasks))
    /\ microtasks' = Tail(microtasks)
    /\ UNCHANGED <<taskflow, promiseResolved, reactions, nFrames, codec, service, component>>

\* One session from connect() on, with the step from onopen to the resolution
\* of the session promise (one step of OnOpen in Spec) taken apart.
NextSend ==
    \/ ConnectStart(FirstSession)
    \/ \E a \in FirstSession : MicGranted(a)
    \/ \E a \in FirstSession : OnOpen(a)
    \/ ToggleMute
    \/ \E a \in FirstSession : CaptureFrame(a)
    \/ \E a \in FirstSession : PromiseResolved(a)
    \/ SendRealtimeInput

SpecSend == Init /\ [][NextSend]_vars

(***************************************************************************)
(* services/audioUtils: float32ToPCM16, arrayBufferToBase64 and            *)
(* base64ToUint8Array, as the component calls them (lines 73-75, 96)       *)
(***************************************************************************)

\* A sample is a multiple of 1/Denom; a Float32Array has up to MaxSamples
\* samples, a buffer up to MaxBytes bytes.
Denom == 4
MaxSamples == 2
MaxBytes == 4

\* The sequences over S of length up to n.
SeqsUpTo(S, n) == UNION {[1..k -> S] : k \in 0..n}

\* Samples from -2.0 to 2.0.
SampleValues == (-2 * Denom)..(2 * Denom)

\* An encoder that scales the sample as it is.
Unclamped(s) == s

\* The sample clamped to [-1.0, 1.0].
Clamp(s) == IF s > Denom THEN Denom ELSE IF s < -Denom THEN -Denom ELSE s

\* n / d rounded towards zero, as a store into an Int16Array rounds.
Trunc(n, d) == IF n >= 0 THEN n \div d ELSE -((-n) \div d)

\* A store into an Int16Array keeps the low 16 bits, as a signed number.
ToInt16(x) == ((x + 32768) % 65536) - 32768

\* The clamped sample scaled: by 0x8000 below zero, by 0x7FFF from zero up.
Scale(s) == IF s < 0 THEN Trunc(s * 32768, Denom) ELSE Trunc(s * 32767, Denom)

float32ToPCM16(float32) == [i \in DOMAIN float32 |-> ToInt16(Scale(Clamp(float32[i])))]

\* The base64 alphabet.
Alphabet ==
    <<"A", "B", "C", "D", "E", "F", "G", "H", "I", "J", "K", "L", "M", "N", "O", "P",
      "Q", "R", "S", "T", "U", "V", "W", "X", "Y", "Z", "a", "b", "c", "d", "e", "f",
      "g", "h", "i", "j", "k", "l", "m", "n", "o", "p", "q", "r", "s", "t", "u", "v",
      "w", "x", "y", "z", "0", "1", "2", "3", "4", "5", "6", "7", "8", "9", "+", "/">>

\* btoa: three bytes become four characters of six bits each; a last group of
\* one or two bytes is padded with "=".
RECURSIVE btoa(_)
btoa(s) ==
    IF Len(s) = 0 THEN <<>>
    ELSE LET b2 == IF Len(s) >= 2 THEN s[2] ELSE 0
             b3 == IF Len(s) >= 3 THEN s[3] ELSE 0
             n == s[1] * 65536 + b2 * 256 + b3
             c1 == Alphabet[(n \div 262144) + 1]
             c2 == Alphabet[((n \div 4096) % 64) + 1]
             c3 == IF Len(s) >= 2 THEN Alphabet[((n \div 64) % 64) + 1] ELSE "="
             c4 == IF Len(s) >= 3 THEN Alphabet[(n % 64) + 1] ELSE "="
         IN  <<c1, c2, c3, c4>> \o (IF Len(s) > 3 THEN btoa(SubSeq(s, 4, Len(s))) ELSE <<>>)

\* The six bits a character stands for (padding: none).
SextetOf(c) == IF c = "=" THEN 0 ELSE (CHOOSE i \in 1..64 : Alphabet[i] = c) - 1

\* A decoder that takes padding for data.
PadIgnored(quad) == 0

\* The bytes of a group of four characters that are padding.
PadCount(quad) == (IF quad[3] = "=" THEN 1 ELSE 0) + (IF quad[4] = "=" THEN 1 ELSE 0)

\* atob: four characters become three bytes, less the padding.
RECURSIVE atob(_)
atob(t) ==
    IF Len(t) = 0 THEN <<>>
    ELSE LET n == SextetOf(t[1]) * 262144 + SextetOf(t[2]) * 4096
                    + SextetOf(t[3]) * 64 + SextetOf(t[4])
             three == <<n \div 65536, (n \div 256) % 256, n % 256>>
         IN  SubSeq(three, 1, 3 - PadCount(SubSeq(t, 1, 4)))
               \o (IF Len(t) > 4 THEN atob(SubSeq(t, 5, Len(t))) ELSE <<>>)

\* The buffer's bytes as a binary string (one character per byte), then btoa.
arrayBufferToBase64(buffer) == btoa(buffer)

\* atob, then the character codes of the binary string as bytes.
base64ToUint8Array(text) == atob(text)

\* The bytes a buffer is made of, among them the ends of the range.
ByteValues == {0, 1, 65, 127, 128, 255}

\* float32ToPCM16 is about to be called with some Float32Array.
InitPcm ==
    /\ Mounted
    /\ Unstamped
    /\ NoFrames
    /\ NoTasks
    /\ ServiceLoaded(<<"k">>)
    /\ codecStage = "input"
    /\ samples \in SeqsUpTo(SampleValues, MaxSamples)
    /\ pcm = <<>>
    /\ bytes = <<>>
    /\ base64 = <<>>
    /\ decoded = <<>>

\* Line 74: const pcm16 = float32ToPCM16(inputData).
EncodeSamples ==
    /\ codecStage = "input"
    /\ codecStage' = "encoded"
    /\ pcm' = float32ToPCM16(samples)
    /\ UNCHANGED <<taskflow, samples, bytes, base64, decoded, transport, service, component>>

SpecPcm == InitPcm /\ [][EncodeSamples]_vars

\* arrayBufferToBase64 is about to be called with some buffer.
InitBase64 ==
    /\ Mounted
    /\ Unstamped
    /\ NoFrames
    /\ NoTasks
    /\ ServiceLoaded(<<"k">>)
    /\ codecStage = "input"
    /\ samples = <<>>
    /\ pcm = <<>>
    /\ bytes \in SeqsUpTo(ByteValues, MaxBytes)
    /\ base64 = <<>>
    /\ decoded = <<>>

\* Line 75: const base64Data = arrayBufferToBase64(pcm16.buffer).
EncodeBytes ==
    /\ codecStage = "input"
    /\ codecStage' = "encoded"
    /\ base64' = arrayBufferToBase64(bytes)
    /\ UNCHANGED <<taskflow, samples, pcm, bytes, decoded, transport, service, component>>

\* Line 96, at the receiving end: base64ToUint8Array(base64Audio).
DecodeText ==
    /\ codecStage = "encoded"
    /\ codecStage' = "decoded"
    /\ decoded' = base64ToUint8Array(base64)
    /\ UNCHANGED <<taskflow, samples, pcm, bytes, base64, transport, service, component>>

NextBase64 ==
    \/ EncodeBytes
    \/ DecodeText

SpecBase64 == InitBase64 /\ [][NextBase64]_vars

(***************************************************************************)
(* src/services/geminiService.ts                                           *)
(***************************************************************************)

\* Line 25: max requests per minute.  Line 26: one minute in ms.
RATE_LIMIT == 30
RATE_WINDOW == 60000

\* The calls followed, the length of a text, the tasks of a model response,
\* the bursts of calls followed, the times the clock is advanced.
MaxCalls == 2
MaxText == 2
MaxTasks == 1
MaxBursts == 3
MaxAdvances == 2

\* A text is a sequence of characters: a letter, a blank, a control character.
Chars == {"a", " ", "NUL"}
Strings == SeqsUpTo(Chars, MaxText)

\* undefined, where a text may be missing.
Undefined == <<"undefined">>

\* `x || ""` (lines 9, 143, 194, 195, 323).
OrEmpty(text) == IF text = Undefined THEN <<>> ELSE text

RECURSIVE TrimStart(_)
TrimStart(s) == IF s # <<>> /\ Head(s) = " " THEN TrimStart(Tail(s)) ELSE s

RECURSIVE TrimEnd(_)
TrimEnd(s) == IF s # <<>> /\ s[Len(s)] = " " THEN TrimEnd(SubSeq(s, 1, Len(s) - 1)) ELSE s

\* String.prototype.trim.
Trim(s) == TrimEnd(TrimStart(s))

\* slice(0, maxLength).
Slice(s, maxLength) == SubSeq(s, 1, IF Len(s) < maxLength THEN Len(s) ELSE maxLength)

\* Line 55: the control characters are removed.
StripControl(s) == SelectSeq(s, LAMBDA c : c # "NUL")

\* Line 47: `!text || typeof text !== 'string'` throws INVALID_INPUT.
SanitizeRejects(text) == text = Undefined \/ text = <<>>

\* Lines 52-57.
sanitizeTextInput(text, maxLength) == StripControl(Slice(Trim(text), maxLength))

\* process.env.API_KEY.
EnvKeys == {Undefined, <<>>, <<" ">>, <<"k">>}

\* Lines 106-110: validateApiKey throws API_KEY_MISSING.
KeyMissing(key) == key = <<>> \/ Trim(key) = <<>>

\* Lines 28-43, on the map `map` at time t: the map afterwards, and whether
\* RATE_LIMIT_EXCEEDED was thrown.
checkRateLimit(map, action, t) ==
    LET entry == map[action]
    IN  IF entry = NoEntry \/ t > entry.resetTime
        THEN [map |-> [map EXCEPT ![action] = [count |-> 1, resetTime |-> t + RATE_WINDOW]],
              threw |-> FALSE]
        ELSE IF entry.count >= RATE_LIMIT
             THEN [map |-> map, threw |-> TRUE]
             ELSE [map |-> [map EXCEPT ![action].count = @ + 1], threw |-> FALSE]

\* Line 62.
MAX_AUDIO_SIZE == 25 * 1024 * 1024

\* The audio blobs passed to transcribeAudio: null, or a Blob of some size and
\* MIME type (<<>>: no type).
Blobs ==
    {[isBlob |-> FALSE, size |-> 0, type |-> <<>>]}
    \cup {[isBlob |-> TRUE, size |-> sz, type |-> ty] :
             sz \in {0, 10, MAX_AUDIO_SIZE + 1},
             ty \in {<<>>, <<"audio", "webm">>, <<"video", "mp4">>}}

\* Lines 61-81: validateAudioBlob does not throw.  Every allowed type starts
\* with "audio", and line 78 compares that first part only.
BlobValid(blob) ==
    /\ blob.isBlob
    /\ blob.size <= MAX_AUDIO_SIZE
    /\ blob.size # 0
    /\ blob.type = <<>> \/ blob.type[1] = "audio"

\* The message of the error a request is rejected with, as the set of the
\* words handleApiError looks for that it contains.
ErrorMessages == {{}, {"API key not valid"}, {"quota"}, {"rate"}, {"INVALID_INPUT"}}

\* Lines 84-103: the error handleApiError throws, by its code; an error of the
\* service's own is thrown again as it is.
handleApiError(message) ==
    IF "API key not valid" \in message THEN "API_KEY_INVALID"
    ELSE IF "quota" \in message THEN "QUOTA_EXCEEDED"
    ELSE IF "rate" \in message THEN "RATE_LIMIT"
    ELSE IF message \cap {"INVALID_INPUT", "API_KEY", "RATE_LIMIT"} # {}
         THEN CHOOSE c \in {"INVALID_INPUT", "API_KEY", "RATE_LIMIT"} : c \in message
         ELSE "SERVICE_ERROR"

\* What a call did: the error it threw ("none": it returned), the value it
\* returned, the model requests it issued, whether it passed checkRateLimit
\* ("none": it did not get there), and the rate limiter's map after it.
Thrown(code, requests, limiter, map) ==
    [threw |-> code, result |-> Undefined, requests |-> requests, limiter |-> limiter,
     map |-> map]

Returned(value, limiter, map) ==
    [threw |-> "none", result |-> value, requests |-> 1, limiter |-> limiter, map |-> map]

\* A response of ai.models.generateContent with a text: the promise rejects
\* with an error, or resolves with a response whose text may be undefined.
TextResponses ==
    {[ok |-> FALSE, message |-> m, text |-> Undefined] : m \in ErrorMessages}
    \cup {[ok |-> TRUE, message |-> {}, text |-> t] : t \in Strings \cup {Undefined}}

\* Lines 117-147.  blobToBase64 (line 122) resolves for a valid blob.
transcribeAudio(key, map, t, audioBlob, response) ==
    IF KeyMissing(key) THEN Thrown("API_KEY_MISSING", 0, "none", map)
    ELSE LET limit == checkRateLimit(map, "transcribe", t)
         IN  IF limit.threw THEN Thrown("RATE_LIMIT_EXCEEDED", 0, "rejected", limit.map)
             ELSE IF ~BlobValid(audioBlob) THEN Thrown("INVALID_INPUT", 0, "passed", limit.map)
             ELSE IF ~response.ok
                  THEN Thrown(handleApiError(response.message), 1, "passed", limit.map)
             ELSE IF SanitizeRejects(OrEmpty(response.text))
                  THEN Thrown(handleApiError({"INVALID_INPUT"}), 1, "passed", limit.map)
             ELSE Returned(sanitizeTextInput(OrEmpty(response.text), 50000), "passed",
                           limit.map)

\* f of object t, or `otherwise` when t has no such property.
Field(t, f, otherwise) == IF f \in DOMAIN t THEN t[f] ELSE otherwise

\* { ...t, ...o }: the properties of o over those of t.
Spread(t, o) == [f \in DOMAIN t \cup DOMAIN o |-> IF f \in DOMAIN o THEN o[f] ELSE t[f]]

\* null, as an element of the array the model returned.
Null == [null |-> TRUE]

\* The objects of a model response: the title, completed and createdAt are
\* there or not.
ModelTasks ==
    {[f \in {"id", "description", "priority"}
            \cup (IF hasTitle THEN {"title"} ELSE {})
            \cup (IF hasCompleted THEN {"completed"} ELSE {})
            \cup (IF hasCreatedAt THEN {"createdAt"} ELSE {})
        |-> CASE f = "completed" -> TRUE
              [] f = "createdAt" -> <<"2", "0", "2", "5">>
              [] f = "priority" -> <<"High">>
              [] OTHER -> <<"a">>] :
       hasTitle \in BOOLEAN, hasCompleted \in BOOLEAN, hasCreatedAt \in BOOLEAN}

\* response.text of analyzeTasksFromText's request: undefined, the empty
\* string, a text JSON.parse rejects, or the JSON text of the value in `items`
\* (kind "array": an array; kind "value": null, a number, a string, an object).
JsonTexts ==
    {[kind |-> k, items |-> <<>>] : k \in {"undefined", "empty", "invalid", "value"}}
    \cup {[kind |-> "array", items |-> a] : a \in SeqsUpTo(ModelTasks \cup {Null}, MaxTasks)}

TaskResponses ==
    {[ok |-> FALSE, message |-> m, text |-> [kind |-> "undefined", items |-> <<>>]] :
        m \in ErrorMessages}
    \cup {[ok |-> TRUE, message |-> {}, text |-> t] : t \in JsonTexts}

\* Line 190, `response.text || "[]"`.
OrEmptyArray(text) ==
    IF text.kind \in {"undefined", "empty"} THEN [kind |-> "array", items |-> <<>>] ELSE text

\* Lines 190-192 throw: JSON.parse rejects the text, or the value has no map().
NotATaskList(text) == OrEmptyArray(text).kind # "array"

\* The callback of lines 192-199 throws: a property of null is read, or
\* sanitizeTextInput rejects the empty text that stands for a missing one.
MapThrows(t) ==
    \/ t = Null
    \/ SanitizeRejects(OrEmpty(Field(t, "title", Undefined)))
    \/ SanitizeRejects(OrEmpty(Field(t, "description", Undefined)))

\* Lines 192-199: the model's object, with the fields the service sets over it;
\* `random` is what Math.random().toString(36).substr(2, 9) gives.
MapTask(t, time, random) ==
    Spread(t, [title |-> sanitizeTextInput(OrEmpty(Field(t, "title", Undefined)), 200),
               description |-> sanitizeTextInput(OrEmpty(Field(t, "description", Undefined)), 1000),
               completed |-> FALSE,
               id |-> Field(t, "id", random),
               createdAt |-> <<"iso", time>>])

\* The next n ids Math.random() gives after `drawn` were drawn: each is new (a
\* collision of two 9-character random ids is left out).
RandomIds(drawn, n) == [i \in 1..n |-> <<"random", drawn + i>>]

\* A catch block that hands the error on, as those of lines 144-146 and 267-269 do.
AnalyzeRethrown(map) == Thrown("SERVICE_ERROR", 1, "passed", map)

\* Lines 200-203: whatever the try block threw, the empty list is returned.
AnalyzeCaught(map) == Returned(<<>>, "passed", map)

\* Lines 150-204; randoms[i] is the random id drawn for the i-th object.
analyzeTasksFromText(key, map, t, transcript, response, randoms) ==
    IF KeyMissing(key) THEN Thrown("API_KEY_MISSING", 0, "none", map)
    ELSE LET limit == checkRateLimit(map, "analyze", t)
             parsed == OrEmptyArray(response.text).items
         IN  IF limit.threw THEN Thrown("RATE_LIMIT_EXCEEDED", 0, "rejected", limit.map)
             ELSE IF SanitizeRejects(transcript)
                  THEN Thrown("INVALID_INPUT", 0, "passed", limit.map)
             ELSE IF \/ ~response.ok
                     \/ NotATaskList(response.text)
                     \/ \E i \in DOMAIN parsed : MapThrows(parsed[i])
                  THEN AnalyzeCaught(limit.map)
             ELSE Returned([i \in DOMAIN parsed |-> MapTask(parsed[i], t, randoms[i])],
                           "passed", limit.map)

\* The location passed to chatWithAssistant: none, or a latitude and longitude.
Locations ==
    {[given |-> FALSE, lat |-> 0, lng |-> 0]}
    \cup {[given |-> TRUE, lat |-> la, lng |-> ln] : la \in {-91, 40, 91}, ln \in {-74, 181}}

\* Lines 225-227.
LocationValid(location) ==
    /\ location.lat >= -90
    /\ location.lat <= 90
    /\ location.lng >= -180
    /\ location.lng <= 180

\* Lines 207-270: the response of chat.sendMessage is returned as it is.
chatWithAssistant(key, map, t, message, location, response) ==
    IF KeyMissing(key) THEN Thrown("API_KEY_MISSING", 0, "none", map)
    ELSE LET limit == checkRateLimit(map, "chat", t)
         IN  IF limit.threw THEN Thrown("RATE_LIMIT_EXCEEDED", 0, "rejected", limit.map)
             ELSE IF SanitizeRejects(message)
                  THEN Thrown("INVALID_INPUT", 0, "passed", limit.map)
             ELSE IF location.given /\ ~LocationValid(location)
                  THEN Thrown("INVALID_INPUT", 0, "passed", limit.map)
             ELSE IF ~response.ok
                  THEN Thrown(handleApiError(response.message), 1, "passed", limit.map)
             ELSE Returned(OrEmpty(response.text), "passed", limit.map)

\* Lines 273-299: the request is issued at once; null is returned whatever
\* comes back.
generateSpeech(key, map, t, text, response) ==
    Returned(<<"null">>, "none", map)

\* Lines 301-315: the request is issued at once; its rejection is the call's.
generateSpeechBase64(key, map, t, text, response) ==
    IF ~response.ok THEN Thrown("MODEL_ERROR", 1, "none", map)
    ELSE Returned(response.text, "none", map)

\* Lines 318-324: the request is issued at once; its rejection is the call's.
getFastResponse(key, map, t, prompt, response) ==
    IF ~response.ok THEN Thrown("MODEL_ERROR", 1, "none", map)
    ELSE Returned(OrEmpty(response.text), "none", map)

\* The key each function passes to checkRateLimit.
KeyOf(fn) ==
    CASE fn = "transcribeAudio" -> "transcribe"
      [] fn = "analyzeTasksFromText" -> "analyze"
      [] fn = "chatWithAssistant" -> "chat"

\* The calls of `key` that passed checkRateLimit after time t.
RECURSIVE PassedIn(_, _)
PassedIn(log, t) ==
    IF log = <<>> THEN 0
    ELSE (IF Head(log).t > t THEN Head(log).n ELSE 0) + PassedIn(Tail(log), t)

\* A call of fn returns or throws: the module's state, and the record of the
\* call (failed: its request was rejected; noText: the response had no text;
\* noTaskList: the response's text was not the JSON text of an array).
Finish(fn, failed, noText, noTaskList, out) ==
    /\ nCalls < MaxCalls
    /\ nCalls' = nCalls + 1
    /\ rateLimitMap' = out.map
    /\ passed' = IF out.limiter = "passed"
                 THEN [passed EXCEPT ![KeyOf(fn)] = Append(@, [t |-> dateNow, n |-> 1])]
                 ELSE passed
    /\ lastCall' = [fn |-> fn, keyMissing |-> KeyMissing(apiKey), calls |-> 1,
                    failed |-> failed, noText |-> noText, noTaskList |-> noTaskList,
                    threw |-> out.threw, result |-> out.result,
                    requests |-> out.requests,
                    rejected |-> IF out.limiter = "rejected" THEN 1 ELSE 0]
    /\ UNCHANGED <<taskflow, apiKey, dateNow, nAdvances, transport, codec, component>>

TranscribeAudio(audioBlob, response) ==
    Finish("transcribeAudio", ~response.ok, response.ok /\ response.text = Undefined, FALSE,
           transcribeAudio(apiKey, rateLimitMap, dateNow, audioBlob, response))

AnalyzeTasksFromText(transcript, response) ==
    Finish("analyzeTasksFromText", ~response.ok,
           response.ok /\ response.text.kind = "undefined",
           response.ok /\ NotATaskList(response.text),
           analyzeTasksFromText(apiKey, rateLimitMap, dateNow, transcript, response,
                                RandomIds(0, MaxTasks)))

ChatWithAssistant(message, location, response) ==
    Finish("chatWithAssistant", ~response.ok, response.ok /\ response.text = Undefined, FALSE,
           chatWithAssistant(apiKey, rateLimitMap, dateNow, message, location, response))

GenerateSpeech(text, response) ==
    Finish("generateSpeech", ~response.ok, response.ok /\ response.text = Undefined, FALSE,
           generateSpeech(apiKey, rateLimitMap, dateNow, text, response))

GenerateSpeechBase64(text, response) ==
    Finish("generateSpeechBase64", ~response.ok, response.ok /\ response.text = Undefined, FALSE,
           generateSpeechBase64(apiKey, rateLimitMap, dateNow, text, response))

GetFastResponse(prompt, response) ==
    Finish("getFastResponse", ~response.ok, response.ok /\ response.text = Undefined, FALSE,
           getFastResponse(apiKey, rateLimitMap, dateNow, prompt, response))

\* The texts passed to the functions: missing, empty, blank, a word.
Inputs == {Undefined, <<>>, <<" ">>, <<"a">>}

\* The module is loaded with some process.env.API_KEY (line 9).
InitService ==
    /\ Mounted
    /\ Unstamped
    /\ NoFrames
    /\ CodecIdle
    /\ NoTasks
    /\ \E env \in EnvKeys : ServiceLoaded(OrEmpty(env))

NextService ==
    \/ \E audioBlob \in Blobs, response \in TextResponses :
          TranscribeAudio(audioBlob, response)
    \/ \E transcript \in Inputs, response \in TaskResponses :
          AnalyzeTasksFromText(transcript, response)
    \/ \E message \in Inputs, location \in Locations, response \in TextResponses :
          ChatWithAssistant(message, location, response)
    \/ \E text \in Inputs, response \in TextResponses : GenerateSpeech(text, response)
    \/ \E text \in Inputs, response \in TextResponses : GenerateSpeechBase64(text, response)
    \/ \E prompt \in Inputs, response \in TextResponses : GetFastResponse(prompt, response)

SpecService == InitService /\ [][NextService]_vars

(***************************************************************************)
(* The rate limiter over time                                              *)
(***************************************************************************)

\* The functions that call checkRateLimit.
Limited == {"transcribeAudio", "analyzeTasksFromText", "chatWithAssistant"}

\* A call of fn with arguments it accepts and a request that succeeds.
Call(fn, key, map, t) ==
    CASE fn = "transcribeAudio" ->
           transcribeAudio(key, map, t, [isBlob |-> TRUE, size |-> 10, type |-> <<>>],
                           [ok |-> TRUE, message |-> {}, text |-> <<"a">>])
      [] fn = "analyzeTasksFromText" ->
           analyzeTasksFromText(key, map, t, <<"a">>,
                                [ok |-> TRUE, message |-> {},
                                 text |-> [kind |-> "array", items |-> <<>>]], <<>>)
      [] fn = "chatWithAssistant" ->
           chatWithAssistant(key, map, t, <<"a">>, [given |-> FALSE, lat |-> 0, lng |-> 0],
                             [ok |-> TRUE, message |-> {}, text |-> <<"a">>])

\* n more calls of fn, one after the other at time t, after calls of which
\* `passed` passed checkRateLimit and `rejected` were rejected by it, and which
\* issued `requests` requests: the map and the three counts afterwards.
RECURSIVE Calls(_, _, _, _, _, _, _, _)
Calls(fn, key, map, t, n, passedSoFar, rejectedSoFar, requests) ==
    IF n = 0
    THEN [map |-> map, passed |-> passedSoFar, rejected |-> rejectedSoFar, requests |-> requests]
    ELSE LET out == Call(fn, key, map, t)
         IN  IF out.limiter = "passed"
             THEN Calls(fn, key, out.map, t, n - 1, passedSoFar + 1, rejectedSoFar,
                        requests + out.requests)
             ELSE Calls(fn, key, out.map, t, n - 1, passedSoFar, rejectedSoFar + 1,
                        requests + out.requests)

\* How many calls arrive within one millisecond.
BurstSizes == {1, RATE_LIMIT}

\* n calls of fn arrive within the same millisecond.
Burst(fn, n) ==
    /\ nCalls < MaxBursts
    /\ nCalls' = nCalls + 1
    /\ LET out == Calls(fn, apiKey, rateLimitMap, dateNow, n, 0, 0, 0)
       IN  /\ rateLimitMap' = out.map
           /\ passed' = IF out.passed > 0
                        THEN [passed EXCEPT ![KeyOf(fn)] =
                                 Append(@, [t |-> dateNow, n |-> out.passed])]
                        ELSE passed
           /\ lastCall' = [fn |-> fn, keyMissing |-> KeyMissing(apiKey), calls |-> n,
                           passed |-> out.passed, rejected |-> out.rejected,
                           requests |-> out.requests]
    /\ UNCHANGED <<taskflow, apiKey, dateNow, nAdvances, transport, codec, component>>

\* Date.now() moves on, by a millisecond or by the length of the window.
Advance(d) ==
    /\ nAdvances < MaxAdvances
    /\ nAdvances' = nAdvances + 1
    /\ dateNow' = dateNow + d
    /\ UNCHANGED <<taskflow, apiKey, rateLimitMap, passed, nCalls, lastCall, transport, codec, component>>

NextRateLimit ==
    \/ \E fn \in Limited, n \in BurstSizes : Burst(fn, n)
    \/ \E d \in {1, RATE_WINDOW} : Advance(d)

SpecRateLimit == Init /\ [][NextRateLimit]_vars

(***************************************************************************)
(* src/components/SmartTaskListener.tsx: from a recording to the task list *)
(***************************************************************************)

\* Bound: the recordings processed.
MaxRecordings == 3

\* The ids the model gives the tasks of its answers.
ModelIds == {<<"1">>, <<"2">>}

\* The objects of the model's answer to a transcript: the schema requires an
\* id (geminiService.ts lines 162-170), line 197 allows for its absence.
DictatedTasks ==
    {[id |-> i, title |-> <<"a">>, description |-> <<"a">>, priority |-> p] :
        i \in ModelIds, p \in {<<"High">>, <<"Low">>}}
    \cup {[title |-> <<"a">>, description |-> <<"a">>, priority |-> p] :
            p \in {<<"High">>, <<"Low">>}}

\* The answers to analyzeTasksFromText's request: it fails, or it is an array.
AnalysisResponses ==
    {[ok |-> FALSE, message |-> {}, text |-> [kind |-> "undefined", items |-> <<>>]]}
    \cup {[ok |-> TRUE, message |-> {}, text |-> [kind |-> "array", items |-> a]] :
            a \in SeqsUpTo(DictatedTasks, MaxTasks)}

\* The answers to transcribeAudio's request: it fails, or it is a word.
TranscriptionResponses ==
    {[ok |-> FALSE, message |-> {}, text |-> Undefined],
     [ok |-> TRUE, message |-> {}, text |-> <<"a">>]}

\* db.tasks.bulkAdd(items) on the rows of a table whose primary key is id
\* (HistoryViewer.tsx line 336): an item whose id is in the table is not added
\* and counts as a failure; the others are added.
RECURSIVE bulkAdd(_, _)
bulkAdd(rows, items) ==
    IF items = <<>> THEN [rows |-> rows, failures |-> 0]
    ELSE LET item == Head(items)
             clash == \E r \in rows : r.id = item.id
             rest == bulkAdd(IF clash THEN rows ELSE rows \cup {item}, Tail(items))
         IN  [rows |-> rest.rows, failures |-> rest.failures + (IF clash THEN 1 ELSE 0)]

\* Line 138: the tasks of priority Critical or High.
criticalTasks(extractedTasks) ==
    {i \in DOMAIN extractedTasks : extractedTasks[i].priority \in {<<"Critical">>, <<"High">>}}

\* The catch block of handleStopRecording, lines 145-155.
ProcessingFailed(map) ==
    /\ processingState' = "error"
    /\ rateLimitMap' = map
    /\ lastOp' = [op |-> "handleStopRecording", extracted |-> 0, bulkAddFailed |-> FALSE,
                  caught |-> TRUE]
    /\ UNCHANGED <<tasks, dbTasks, dbRecordings, notifications, nIds>>

\* handleStopRecording, lines 109-156: the recording is transcribed, the
\* transcript analysed, the extracted tasks put in front of the list, the
\* recording saved, the tasks stored with bulkAdd, a notification shown for
\* the urgent ones; whatever throws lands in the catch block.
HandleStopRecording(audioBlob, transcription, analysis) ==
    /\ nOps < MaxRecordings
    /\ nOps' = nOps + 1
    /\ LET text == transcribeAudio(apiKey, rateLimitMap, dateNow, audioBlob, transcription)
           answer == analyzeTasksFromText(apiKey, text.map, dateNow, text.result, analysis,
                                          RandomIds(nIds, MaxTasks))
           extractedTasks == answer.result
           stored == bulkAdd(dbTasks, extractedTasks)
       IN  IF text.threw # "none" THEN ProcessingFailed(text.map)
           ELSE IF answer.threw # "none" THEN ProcessingFailed(answer.map)
           ELSE /\ rateLimitMap' = answer.map
                /\ tasks' = extractedTasks \o tasks
                /\ nIds' = nIds + Len(extractedTasks)
                /\ dbRecordings' = dbRecordings + 1
                /\ dbTasks' = stored.rows
                /\ processingState' = IF stored.failures > 0 THEN "error" ELSE "done"
                /\ notifications' =
                      IF /\ stored.failures = 0
                         /\ criticalTasks(extractedTasks) # {}
                         /\ permission = "granted"
                      THEN Append(notifications, [kind |-> "urgent", task |-> <<>>])
                      ELSE notifications
                /\ lastOp' = [op |-> "handleStopRecording",
                              extracted |-> Len(extractedTasks),
                              bulkAddFailed |-> stored.failures > 0,
                              caught |-> stored.failures > 0]
    /\ UNCHANGED <<pendingToggles, permission, wallClock, messages, apiKey, dateNow, passed,
                   nCalls, nAdvances, lastCall, transport, codec, component>>

NextRecord ==
    \E audioBlob \in Blobs, transcription \in TranscriptionResponses,
       analysis \in AnalysisResponses :
        HandleStopRecording(audioBlob, transcription, analysis)

SpecRecord == Init /\ [][NextRecord]_vars

(***************************************************************************)
(* ChatBot.handleSend (src/unnamed/part_005): the task creation protocol   *)
(***************************************************************************)

\* Bounds: the messages sent, and the pieces a reply is made of.
MaxSends == 1
MaxSegments == 3

\* A text is a sequence of units: the opening "[[TASK:", the bar "|", the
\* closing "]]", a priority word, a blank " ", a line break "NL", or any
\* other character "x".  An index counts units.
Whitespace == {" ", "NL"}

RECURSIVE TrimStartText(_)
TrimStartText(text) ==
    IF text = <<>> THEN text
    ELSE IF Head(text) \in Whitespace THEN TrimStartText(Tail(text))
    ELSE text

RECURSIVE TrimEndText(_)
TrimEndText(text) ==
    IF text = <<>> THEN text
    ELSE IF text[Len(text)] \in Whitespace THEN TrimEndText(SubSeq(text, 1, Len(text) - 1))
    ELSE text

\* String.prototype.trim on a text.
TrimText(text) == TrimEndText(TrimStartText(text))

\* A directive as the system instruction asks for it (geminiService.ts lines
\* 237-244), written tight or with blanks around its fields.
Directive(priority, spaced) ==
    IF spaced
    THEN <<"[[TASK:", " ", "x", " ", "|", " ", "x", " ", "|", " ", priority, " ", "]]">>
    ELSE <<"[[TASK:", "x", "|", "x", "|", priority, "]]">>

\* The pieces of a reply: a character, a line break, a sentence, a directive
\* with a priority of the list or with another word.
Segments ==
    {<<"x">>, <<"NL">>,
     <<"x", "x", "x", "x", "x", "x", "x", "x", "x", "x", "x", "x", "x", "x">>}
    \cup {Directive(p, sp) : p \in {"High", "Urgent"}, sp \in BOOLEAN}

RECURSIVE Flatten(_)
Flatten(segs) == IF segs = <<>> THEN <<>> ELSE Head(segs) \o Flatten(Tail(segs))

\* result.text of a reply.
Replies == {Flatten(segs) : segs \in SeqsUpTo(Segments, MaxSegments)}

\* The positions after the first `from` units where text holds the unit u.
After(text, from, u) == {i \in (from + 1)..Len(text) : text[i] = u}

Least(S) == CHOOSE x \in S : \A y \in S : x <= y

\* `.` matches no line break.
HasBreak(text) == \E i \in DOMAIN text : text[i] = "NL"

\* taskRegex (line 80) tried at the opening at position st: each lazy group
\* ends at the first bar, bar and closing that follow; \s* takes the
\* whitespace around a group.
MatchAt(text, st) ==
    LET bars1 == After(text, st, "|")
        b1 == Least(bars1)
        bars2 == After(text, b1, "|")
        b2 == Least(bars2)
        ends == After(text, b2, "]]")
        e == Least(ends)
    IN  IF bars1 = {} THEN [found |-> FALSE]
        ELSE IF bars2 = {} THEN [found |-> FALSE]
        ELSE IF ends = {} THEN [found |-> FALSE]
        ELSE IF \/ HasBreak(TrimText(SubSeq(text, st + 1, b1 - 1)))
                \/ HasBreak(TrimText(SubSeq(text, b1 + 1, b2 - 1)))
                \/ HasBreak(TrimStartText(SubSeq(text, b2 + 1, e - 1)))
             THEN [found |-> FALSE]
        ELSE [found |-> TRUE, end |-> e,
              fullMatch |-> SubSeq(text, st, e),
              title |-> TrimText(SubSeq(text, st + 1, b1 - 1)),
              description |-> TrimText(SubSeq(text, b1 + 1, b2 - 1)),
              priority |-> TrimStartText(SubSeq(text, b2 + 1, e - 1))]

\* taskRegex.exec(text) with the regex's lastIndex: the leftmost match that
\* begins at index lastIndex or later (found = FALSE: null).
Exec(text, lastIndex) ==
    LET starts == {st \in After(text, lastIndex, "[[TASK:") : MatchAt(text, st).found}
    IN  IF starts = {} THEN [found |-> FALSE] ELSE MatchAt(text, Least(starts))

\* text.replace(fullMatch, ""): the first occurrence of the string is removed.
ReplaceFirst(text, fullMatch) ==
    LET n == Len(fullMatch)
        at == {i \in 1..(Len(text) - n + 1) : SubSeq(text, i, i + n - 1) = fullMatch}
    IN  IF at = {} THEN text
        ELSE SubSeq(text, 1, Least(at) - 1) \o SubSeq(text, Least(at) + n, Len(text))

\* Lines 88-91.
cleanPriority(priority) ==
    IF TrimText(priority) \in {<<"Critical">>, <<"High">>, <<"Medium">>, <<"Low">>}
    THEN TrimText(priority)
    ELSE <<"Medium">>

\* Lines 93-100, without the id and the time.
NewTask(match) ==
    [title |-> TrimText(match.title), description |-> TrimText(match.description),
     priority |-> cleanPriority(match.priority)]

\* The loop of lines 84-111: exec is called on the text as it is now, from the
\* lastIndex the match before left; each match is cut out of the text, which
\* is trimmed.  The text and the tasks created when exec returns null.
RECURSIVE TaskLoop(_, _, _)
TaskLoop(text, lastIndex, created) ==
    LET match == Exec(text, lastIndex)
    IN  IF ~match.found THEN [text |-> text, created |-> created]
        ELSE TaskLoop(TrimText(ReplaceFirst(text, match.fullMatch)), match.end,
                      Append(created, NewTask(match)))

\* The directives of a reply, from left to right.
RECURSIVE DirectivesOf(_, _)
DirectivesOf(text, from) ==
    LET match == Exec(text, from)
    IN  IF ~match.found THEN <<>>
        ELSE <<NewTask(match)>> \o DirectivesOf(text, match.end)

\* The replies to chat.sendMessage: it fails, it has no text, it has a text.
ChatResponses ==
    {[ok |-> FALSE, message |-> {}, text |-> Undefined]}
    \cup {[ok |-> TRUE, message |-> {}, text |-> r] : r \in Replies \cup {Undefined}}

\* handleSend, lines 57-122, for a message that is not blank: the reply's
\* directives become rows of db.tasks, the text left is displayed.
HandleSend(userMsg, response) ==
    /\ nOps < MaxSends
    /\ nOps' = nOps + 1
    /\ LET result == chatWithAssistant(apiKey, rateLimitMap, dateNow, userMsg,
                                       [given |-> FALSE, lat |-> 0, lng |-> 0], response)
           reply == IF result.result = <<>> THEN <<"I couldn't generate a response.">>
                    ELSE result.result
           done == TaskLoop(reply, 0, <<>>)
           rows == {[id |-> <<"random", nIds + i>>, title |-> done.created[i].title,
                     description |-> done.created[i].description,
                     priority |-> done.created[i].priority, completed |-> FALSE,
                     createdAt |-> <<"iso", dateNow>>] : i \in DOMAIN done.created}
           shown == IF done.text # <<>> THEN done.text
                    ELSE IF done.created # <<>> THEN <<"Task created successfully.">>
                    ELSE <<"I processed that.">>
       IN  /\ rateLimitMap' = result.map
           /\ IF result.threw # "none"
              THEN /\ messages' = messages \o <<[role |-> "user", text |-> userMsg],
                                                [role |-> "model",
                                                 text |-> <<"Sorry, I encountered an error.">>]>>
                   /\ lastOp' = [op |-> "handleSend", caught |-> TRUE, reply |-> <<>>,
                                 created |-> <<>>]
                   /\ UNCHANGED <<dbTasks, nIds>>
              ELSE /\ messages' = messages \o <<[role |-> "user", text |-> userMsg],
                                                [role |-> "model", text |-> shown]>>
                   /\ dbTasks' = dbTasks \cup rows
                   /\ nIds' = nIds + Len(done.created)
                   /\ lastOp' = [op |-> "handleSend", caught |-> FALSE, reply |-> reply,
                                 created |-> done.created]
    /\ UNCHANGED <<tasks, processingState, pendingToggles, dbRecordings, permission,
                   notifications, wallClock, apiKey, dateNow, passed, nCalls, nAdvances,
                   lastCall, transport, codec, component>>

NextChat == \E response \in ChatResponses : HandleSend(<<"a">>, response)

SpecChat == Init /\ [][NextChat]_vars

(***************************************************************************)
(* src/components/SmartTaskListener.tsx: the task list, its reminders and  *)
(* its recurring tasks                                                      *)
(***************************************************************************)

\* Bounds: the handler calls, the hours that pass, and the length of the list
\* up to which the form adds a task.
MaxOps == 3
MaxHours == 2
MaxForms == 1

\* A Date is a year, a month, a day of the month and an hour (local time and
\* UTC are taken to agree); NoDate stands for an undefined dueDate.
NoDate == [y |-> 0, m |-> 0, d |-> 0, h |-> 0]

\* new Date() when wallClock is 0; wallClock counts the hours since.
Epoch == [y |-> 2024, m |-> 1, d |-> 31, h |-> 23]

Leap(y) == (y % 4 = 0 /\ y % 100 # 0) \/ y % 400 = 0

DaysIn(y, m) ==
    IF m = 2 THEN (IF Leap(y) THEN 29 ELSE 28)
    ELSE IF m \in {4, 6, 9, 11} THEN 30
    ELSE 31

\* The Date that JavaScript makes of fields out of range, as setHours,
\* setDate, setMonth and setFullYear leave them: hours carry into days, months
\* into years, and the days beyond a month's end into the months that follow.
RECURSIVE MakeDate(_)
MakeDate(date) ==
    IF date.h > 23 THEN MakeDate([date EXCEPT !.h = @ - 24, !.d = @ + 1])
    ELSE IF date.m > 12 THEN MakeDate([date EXCEPT !.m = @ - 12, !.y = @ + 1])
    ELSE IF date.d > DaysIn(date.y, date.m)
         THEN MakeDate([date EXCEPT !.d = @ - DaysIn(date.y, date.m), !.m = @ + 1])
    ELSE date

\* new Date() at the given hour.
DateAt(hour) == MakeDate([Epoch EXCEPT !.h = @ + hour])

Recurrences == {"Hourly", "Daily", "Weekly", "Monthly", "Yearly"}

\* Lines 181-188: the date of the next instance.
nextDate(dueDate, recurrence, hour) ==
    LET from == IF dueDate = NoDate THEN DateAt(hour) ELSE dueDate
    IN  CASE recurrence = "Hourly" -> MakeDate([from EXCEPT !.h = @ + 1])
          [] recurrence = "Daily" -> MakeDate([from EXCEPT !.d = @ + 1])
          [] recurrence = "Weekly" -> MakeDate([from EXCEPT !.d = @ + 7])
          [] recurrence = "Monthly" -> MakeDate([from EXCEPT !.m = @ + 1])
          [] recurrence = "Yearly" -> MakeDate([from EXCEPT !.y = @ + 1])

\* crypto.randomUUID(): the id after `drawn` were drawn.
randomUUID(drawn) == <<"uuid", drawn + 1>>

\* reminderTime undefined; startedAt undefined and null.
NoReminder == -1
NotStarted == -2
StartedNull == -1

\* The due dates and reminder times typed into the form (TaskFormModal.tsx
\* lines 43-50), and the recurrence chosen ("": none).
DueDates ==
    {NoDate, [y |-> 2024, m |-> 1, d |-> 31, h |-> 9], [y |-> 2024, m |-> 2, d |-> 29, h |-> 9],
     [y |-> 2024, m |-> 3, d |-> 15, h |-> 23]}

FormInputs ==
    [dueDate : DueDates, reminderTime : {NoReminder, 1}, recurrence : Recurrences \cup {""}]

\* { ...t, ...updates } for the task with the given id, in a list and in a table.
MergeInList(list, id, updates) ==
    [i \in DOMAIN list |-> IF list[i].id = id THEN Spread(list[i], updates) ELSE list[i]]

MergeInTable(rows, id, updates) ==
    {IF r.id = id THEN Spread(r, updates) ELSE r : r \in rows}

\* handleSaveModal for a new task, lines 236-252.
HandleSaveModal(updates) ==
    /\ nOps < MaxOps
    /\ Len(tasks) < MaxForms
    /\ nOps' = nOps + 1
    /\ LET newTask == [id |-> randomUUID(nIds), completed |-> FALSE,
                       createdAt |-> wallClock, dueDate |-> updates.dueDate,
                       reminderTime |-> updates.reminderTime,
                       recurrence |-> updates.recurrence, startedAt |-> NotStarted,
                       timeSpent |-> 0]
       IN  /\ dbTasks' = dbTasks \cup {newTask}
           /\ tasks' = <<newTask>> \o tasks
           /\ lastOp' = [op |-> "handleSaveModal"]
    /\ nIds' = nIds + 1
    /\ UNCHANGED <<processingState, pendingToggles, dbRecordings, permission, notifications,
                   wallClock, messages, service, transport, codec, component>>

\* A reminder that stays as it is.
ReminderKept(task) == [reminderTime |-> task.reminderTime]

\* Line 66: the update that clears the reminder.
ReminderCleared(task) == [reminderTime |-> NoReminder]

\* Lines 54 and 58: the task is not completed and its reminder is due.
ReminderDue(task, hour) ==
    /\ ~task.completed
    /\ task.reminderTime # NoReminder
    /\ task.reminderTime <= hour

\* checkReminders over the first n tasks of the render's list, lines 53-69:
\* the list, the table and the notifications afterwards.
RECURSIVE RemindersChecked(_, _, _, _, _)
RemindersChecked(rendered, n, list, rows, shown) ==
    IF n = 0 THEN [list |-> list, rows |-> rows, shown |-> shown]
    ELSE LET before == RemindersChecked(rendered, n - 1, list, rows, shown)
             task == rendered[n]
         IN  IF ~ReminderDue(task, wallClock) THEN before
             ELSE [list |-> MergeInList(before.list, task.id, ReminderCleared(task)),
                   rows |-> MergeInTable(before.rows, task.id, ReminderCleared(task)),
                   shown |-> IF permission = "granted"
                             THEN Append(before.shown,
                                         [kind |-> "reminder", task |-> task.id])
                             ELSE before.shown]

\* The interval of line 71 fires: checkReminders, lines 51-70.
CheckReminders ==
    /\ nOps < MaxOps
    /\ nOps' = nOps + 1
    /\ LET after == RemindersChecked(tasks, Len(tasks), tasks, dbTasks, notifications)
       IN  /\ tasks' = after.list
           /\ dbTasks' = after.rows
           /\ notifications' = after.shown
           /\ lastOp' = [op |-> "checkReminders", at |-> wallClock,
                         due |-> {tasks[i].id : i \in {j \in DOMAIN tasks :
                                                          ReminderDue(tasks[j], wallClock)}}]
    /\ UNCHANGED <<processingState, pendingToggles, dbRecordings, permission, wallClock, nIds,
                   messages, service, transport, codec, component>>

\* An hour passes.
HourPasses ==
    /\ wallClock < MaxHours
    /\ wallClock' = wallClock + 1
    /\ UNCHANGED <<tasks, processingState, pendingToggles, dbTasks, dbRecordings, permission,
                   notifications, nIds, messages, nOps, lastOp, service, transport, codec,
                   component>>

\* TaskCard.handleToggleTimer (TaskCard.tsx lines 47-64) through updateTask
\* (lines 213-216): the timer of the i-th task is started or stopped.
ToggleTimer(i) ==
    /\ nOps < MaxOps
    /\ i \in DOMAIN tasks
    /\ nOps' = nOps + 1
    /\ LET task == tasks[i]
           updates == IF task.startedAt >= 0
                      THEN [startedAt |-> StartedNull,
                            timeSpent |-> task.timeSpent + (wallClock - task.startedAt)]
                      ELSE [startedAt |-> wallClock]
       IN  /\ tasks' = MergeInList(tasks, task.id, updates)
           /\ dbTasks' = MergeInTable(dbTasks, task.id, updates)
    /\ lastOp' = [op |-> "toggleTimer"]
    /\ UNCHANGED <<processingState, pendingToggles, dbRecordings, permission, notifications,
                   wallClock, nIds, messages, service, transport, codec, component>>

\* Lines 190-199: the next instance of a recurring task.
NextInstance(task, id, hour) ==
    Spread(task, [id |-> id, dueDate |-> nextDate(task.dueDate, task.recurrence, hour),
                  completed |-> FALSE, createdAt |-> hour, startedAt |-> StartedNull,
                  timeSpent |-> 0])

\* Lines 209-210: the task is marked in the list and in the table.
Marked(id, newCompleted) ==
    /\ tasks' = MergeInList(tasks, id, [completed |-> newCompleted])
    /\ dbTasks' = MergeInTable(dbTasks, id, [completed |-> newCompleted])

\* toggleTask(id) for the i-th task of the render's list, lines 173-211.  For
\* a recurring task that becomes completed the next instance is added to the
\* table and the call waits for that (line 201); otherwise the call runs to
\* its end.
ToggleTask(i) ==
    /\ nOps < MaxOps
    /\ i \in DOMAIN tasks
    /\ nOps' = nOps + 1
    /\ LET task == tasks[i]
           newCompleted == ~task.completed
           newTask == NextInstance(task, randomUUID(nIds), wallClock)
       IN  IF newCompleted /\ task.recurrence # ""
           THEN /\ dbTasks' = dbTasks \cup {newTask}
                /\ pendingToggles' = Append(pendingToggles,
                                            [id |-> task.id, newTask |-> newTask,
                                             before |-> task])
                /\ nIds' = nIds + 1
                /\ lastOp' = [op |-> "toggleTask", id |-> task.id, awaiting |-> TRUE,
                              before |-> task, listBefore |-> tasks, tableBefore |-> dbTasks]
                /\ UNCHANGED tasks
           ELSE /\ Marked(task.id, newCompleted)
                /\ lastOp' = [op |-> "toggleTask", id |-> task.id, awaiting |-> FALSE,
                              before |-> task, listBefore |-> tasks, tableBefore |-> dbTasks]
                /\ UNCHANGED <<pendingToggles, nIds>>
    /\ UNCHANGED <<processingState, dbRecordings, permission, notifications, wallClock,
                   messages, service, transport, codec, component>>

\* db.tasks.add has resolved: toggleTask goes on from line 202 to its end.
ToggleResumed ==
    /\ pendingToggles # <<>>
    /\ LET call == Head(pendingToggles)
           list == <<call.newTask>> \o tasks
       IN  /\ tasks' = MergeInList(list, call.id, [completed |-> TRUE])
           /\ dbTasks' = MergeInTable(dbTasks, call.id, [completed |-> TRUE])
           /\ notifications' = IF permission = "granted"
                               THEN Append(notifications,
                                           [kind |-> "returning", task |-> call.id])
                               ELSE notifications
           /\ lastOp' = [op |-> "toggleResumed", id |-> call.id, before |-> call.before,
                         newTask |-> call.newTask, listBefore |-> tasks]
    /\ pendingToggles' = Tail(pendingToggles)
    /\ UNCHANGED <<processingState, dbRecordings, permission, wallClock, nIds, messages, nOps,
                   service, transport, codec, component>>

\* The component is mounted with Notification.permission granted or not.
InitTasks ==
    /\ Mounted
    /\ Unstamped
    /\ NoFrames
    /\ CodecIdle
    /\ ServiceLoaded(<<"k">>)
    /\ tasks = <<>>
    /\ processingState = "idle"
    /\ pendingToggles = <<>>
    /\ dbTasks = {}
    /\ dbRecordings = 0
    /\ permission \in {"granted", "denied"}
    /\ notifications = <<>>
    /\ wallClock = 0
    /\ nIds = 0
    /\ messages = <<>>
    /\ nOps = 0
    /\ lastOp = [op |-> "none"]

NextTasks ==
    \/ \E updates \in FormInputs : HandleSaveModal(updates)
    \/ CheckReminders
    \/ HourPasses
    \/ \E i \in 1..MaxOps : ToggleTimer(i)
    \/ \E i \in 1..MaxOps : ToggleTask(i)
    \/ ToggleResumed

SpecTasks == InitTasks /\ [][NextTasks]_vars

\* The same list for tasks without a due date, recurring daily or not at all.
ReminderForms ==
    [dueDate : {NoDate}, reminderTime : {NoReminder, 1}, recurrence : {"", "Daily"}]

NextReminders ==
    \/ \E updates \in ReminderForms : HandleSaveModal(updates)
    \/ CheckReminders
    \/ HourPasses
    \/ \E i \in 1..MaxOps : ToggleTimer(i)
    \/ \E i \in 1..MaxOps : ToggleTask(i)
    \/ ToggleResumed

SpecReminders == InitTasks /\ [][NextReminders]_vars

(***************************************************************************)
(* The claims                                                              *)
(***************************************************************************)

\* The attempt's session was never established: its promise rejected, or its
\* socket failed or closed before onopen (which creates the capture nodes) ran.
EstablishmentFailed(a) ==
    \/ session[a] = "rejected"
    \/ session[a] \in {"errored", "closed"} /\ capture[a] = "none"

\* C1: a frame captured while the session is muted is not handed to
\* sendRealtimeInput, and a frame captured while it is not muted is handed to
\* it once.
C1_MutedFramesNotSent ==
    lastEvent.op = "onaudioprocess" => (lastEvent.sent <=> ~lastEvent.muted)

\* C2: when the session of a connect() call is never established, that call has
\* acquired no microphone stream and started no capture nodes.
C2_FailedConnectNeverAcquiredMic ==
    \A a \in Attempts : EstablishmentFailed(a) => stream[a] = "none" /\ capture[a] = "none"

\* C3: right after a failure (getUserMedia rejected, the session promise
\* rejected, a transport error) the failed attempt's microphone stream and both
\* its audio contexts are released and isConnected is false.
C3_FailureReleasesResources ==
    (\/ lastEvent.op \in {"micDenied", "sessionRejected"}
     \/ lastEvent.op = "disconnect" /\ lastEvent.cause = "onerror")
    => /\ stream[lastEvent.att] # "live"
       /\ inputCtx[lastEvent.att] # "running"
       /\ outputCtx[lastEvent.att] # "running"
       /\ ~isConnected

\* C4, as claimed: of two sources started one after the other with no
\* interruption between them, the second starts when the first ends.
C4_Contiguous ==
    \A i \in 2..Len(scheduledSourcesRef) :
        scheduledSourcesRef[i].ctx = scheduledSourcesRef[i - 1].ctx
        => scheduledSourcesRef[i].start
             = scheduledSourcesRef[i - 1].start + scheduledSourcesRef[i - 1].dur

\* C4, as amended: the second starts when the first ends, or at the output
\* clock's time when it was scheduled if the clock had already passed that end;
\* so the two never overlap.
C4_ContiguousOrCaughtUp ==
    \A i \in 2..Len(scheduledSourcesRef) :
        scheduledSourcesRef[i].ctx = scheduledSourcesRef[i - 1].ctx
        => scheduledSourcesRef[i].start
             = Max(scheduledSourcesRef[i - 1].start + scheduledSourcesRef[i - 1].dur,
                   scheduledSourcesRef[i].at)

\* Three sources in a row: the second starts at the first's end, the third after a
\* stall, at the clock's time.
C4_Witness ==
    /\ Len(scheduledSourcesRef) = 3
    /\ scheduledSourcesRef[2].start = scheduledSourcesRef[1].start + scheduledSourcesRef[1].dur
    /\ scheduledSourcesRef[2].at < scheduledSourcesRef[2].start
    /\ scheduledSourcesRef[3].start > scheduledSourcesRef[2].start + scheduledSourcesRef[2].dur

\* C5: right after an interruption is processed the list is empty, each of the
\* N sources it held has been stopped and nextStartTimeRef is 0; and a source
\* scheduled next after an interruption starts no earlier than the output
\* clock's time at which it is scheduled.
C5_InterruptionFlushes ==
    /\ lastEvent.op = "interrupted"
       => /\ scheduledSourcesRef = <<>>
          /\ nextStartTimeRef = 0
          /\ Len(lastEvent.stopped) = Len(lastEvent.before)
          /\ \A i \in DOMAIN lastEvent.stopped : lastEvent.stopped[i].state = "stopped"
    /\ \A i \in DOMAIN scheduledSourcesRef :
          scheduledSourcesRef[i].afterFlush >= 0
          => scheduledSourcesRef[i].start >= scheduledSourcesRef[i].at

\* A source scheduled, at a clock time past 0, after an interruption that
\* stopped two sources.
C5_Witness ==
    /\ lastEvent.op = "scheduled"
    /\ scheduledSourcesRef[1].afterFlush = 2
    /\ scheduledSourcesRef[1].at > 0

C7_ConnectNoOpUnlessDisconnected ==
    lastEvent.op = "connect" /\ lastEvent.state # "Disconnected"
    => inputCtx[lastEvent.att] = "none" /\ outputCtx[lastEvent.att] = "none"

\* C8: in what one disconnect() releases, the microphone tracks and the capture
\* nodes come before the session, and the session before the output context.
C8_ReleaseOrder ==
    lastEvent.op = "disconnect"
    => \A i, j \in DOMAIN lastEvent.order :
          /\ lastEvent.order[i] \in {"stream", "source", "processor"} /\ lastEvent.order[j] = "session"
             => i < j
          /\ lastEvent.order[i] = "session" /\ lastEvent.order[j] = "outputContext"
             => i < j

\* C9: right after disconnect() (from the button, onclose or onerror) the list
\* of scheduled sources is empty, nextStartTimeRef is 0 and the output context
\* is closed.
C9_TeardownFlushes ==
    lastEvent.op = "disconnect"
    => /\ scheduledSourcesRef = <<>>
       /\ nextStartTimeRef = 0
       /\ outputContextRef # 0 => outputCtx[outputContextRef] = "closed"

\* C10: right after a transport error on an open session, that session's
\* microphone tracks are stopped, its capture nodes disconnected, both its audio
\* contexts closed, the session itself no longer open, isConnected is false, and
\* no connect() call is under way that the user did not make.
C10_ErrorTearsDown ==
    lastEvent.op = "disconnect" /\ lastEvent.cause = "onerror" /\ lastEvent.wasOpen
    => /\ stream[lastEvent.att] = "stopped"
       /\ capture[lastEvent.att] = "disconnected"
       /\ inputCtx[lastEvent.att] = "closed"
       /\ outputCtx[lastEvent.att] = "closed"
       /\ session[lastEvent.att] \notin {"pending", "open"}
       /\ ~isConnected

\* C11: a failed decode changes neither nextStartTimeRef nor the list of
\* scheduled sources nor isConnected; and the chunk decoded next after a failed
\* one is started as any other: at the end of the source before it, or at the
\* output clock's time if that is later.
C11_DecodeFailureDropsOnlyTheChunk ==
    /\ lastEvent.op = "decodeFailed"
       => /\ nextStartTimeRef = lastEvent.cursor
          /\ scheduledSourcesRef = lastEvent.list
          /\ isConnected = lastEvent.connected
    /\ lastEvent.op = "scheduled" /\ lastEvent.afterDrop
       => LET n == Len(scheduledSourcesRef)
              s == scheduledSourcesRef[n]
          IN  /\ s.state = "started"
              /\ nextStartTimeRef = s.start + s.dur
              /\ s.start = IF n = 1 THEN s.at
                           ELSE Max(scheduledSourcesRef[n - 1].start
                                      + scheduledSourcesRef[n - 1].dur, s.at)

\* While connected, a chunk is scheduled right after another chunk's decode
\* failed, behind a source that was scheduled before the failure.
C11_Witness ==
    /\ lastEvent.op = "scheduled"
    /\ lastEvent.afterDrop
    /\ isConnected
    /\ Len(scheduledSourcesRef) = 2

\* C12: what was pending when disconnect() ran is discarded when it completes.
\* An onopen whose session disconnect() has already asked to close leaves
\* isConnected false and starts no capture; no frame is sent on a session that
\* is not open; no source is scheduled on an output context that disconnect()
\* has closed.
C12_PendingResultsDiscarded ==
    /\ lastEvent.op = "onopen" /\ session[lastEvent.att] = "closing"
       => ~isConnected /\ capture[lastEvent.att] = "none"
    /\ lastEvent.op = "onaudioprocess" /\ lastEvent.sent
       => session[lastEvent.att] = "open"
    /\ lastEvent.op = "scheduled"
       => outputCtx[scheduledSourcesRef[Len(scheduledSourcesRef)].ctx] = "running"

\* C13: at most one microphone stream is live and at most one output context
\* is open; and when connect() starts, every earlier call's stream is stopped,
\* its contexts are closed and its session is neither pending, open nor closing.
C13_PreviousSessionReleased ==
    /\ Cardinality({a \in Attempts : stream[a] = "live"}) <= 1
    /\ Cardinality({a \in Attempts : outputCtx[a] = "running"}) <= 1
    /\ lastEvent.op = "connect"
       => \A b \in Attempts \ {lastEvent.att} :
             /\ stream[b] # "live"
             /\ inputCtx[b] # "running"
             /\ outputCtx[b] # "running"
             /\ session[b] \notin {"pending", "open", "closing"}

\* C14: every frame captured has been handed to sendRealtimeInput or waits to
\* be, each once and in the order of capture, the frames captured before the
\* session promise resolved included; once the promise has resolved none waits
\* for it any more.
C14_FramesInCaptureOrder ==
    LET all == sentFrames \o microtasks \o reactions
    IN  /\ Len(all) = nFrames
        /\ \A i \in DOMAIN all : all[i].n = i
        /\ promiseResolved => reactions = <<>>

\* Three frames sent: two captured before the promise resolved, one after.
C14_Witness ==
    /\ Len(sentFrames) = 3
    /\ sentFrames[1].deferred
    /\ sentFrames[2].deferred
    /\ ~sentFrames[3].deferred

\* C15: float32ToPCM16 returns as many samples as it was given, each within
\* [-32768, 32767]: 32767 for a sample of 1.0 or more, -32768 for a sample of
\* -1.0 or less, 0 for 0.
C15_ClampedNotWrapped ==
    codecStage = "encoded"
    => /\ Len(pcm) = Len(samples)
       /\ \A i \in DOMAIN samples :
             /\ pcm[i] \in -32768..32767
             /\ samples[i] >= Denom => pcm[i] = 32767
             /\ samples[i] <= -Denom => pcm[i] = -32768
             /\ samples[i] = 0 => pcm[i] = 0

\* The samples 2.0 and -2.0 encoded.
C15_Witness ==
    /\ codecStage = "encoded"
    /\ samples = <<2 * Denom, -2 * Denom>>
    /\ pcm = <<32767, -32768>>

\* C16: base64ToUint8Array(arrayBufferToBase64(b)) = b.
C16_Base64RoundTrip ==
    codecStage = "decoded" => decoded = bytes

\* The one byte 65 ("A"), encoded as "QQ==" and decoded.
C16_Witness ==
    /\ codecStage = "decoded"
    /\ bytes = <<65>>
    /\ base64 = <<"Q", "Q", "=", "=">>
    /\ decoded = <<65>>

\* C17: when its request resolves with a response that has no text,
\* transcribeAudio returns the empty string.
C17_NoTextGivesEmptyString ==
    lastCall.fn = "transcribeAudio" /\ lastCall.requests = 1 /\ lastCall.noText
    => lastCall.threw = "none" /\ lastCall.result = <<>>

\* C18: once its request is issued analyzeTasksFromText throws nothing; it
\* returns the empty list when the request fails or the response is no task
\* list; every task it returns has completed = false and a createdAt.
C18_AnalyzeFailsGracefully ==
    lastCall.fn = "analyzeTasksFromText" /\ lastCall.requests = 1
    => /\ lastCall.threw = "none"
       /\ lastCall.failed \/ lastCall.noTaskList => lastCall.result = <<>>
       /\ \A i \in DOMAIN lastCall.result :
             /\ lastCall.result[i].completed = FALSE
             /\ "createdAt" \in DOMAIN lastCall.result[i]

\* The request of analyzeTasksFromText was rejected and the empty list returned.
C18_Witness ==
    /\ lastCall.fn = "analyzeTasksFromText"
    /\ lastCall.requests = 1
    /\ lastCall.failed
    /\ lastCall.result = <<>>

\* C19: for each action key, at most RATE_LIMIT calls have passed
\* checkRateLimit within the last RATE_WINDOW milliseconds; and a call that
\* checkRateLimit rejects issues no request.
C19_AtMost30PerMinute ==
    /\ \A k \in ActionKeys : PassedIn(passed[k], dateNow - RATE_WINDOW) <= RATE_LIMIT
    /\ lastCall.fn \in Limited => lastCall.requests + lastCall.rejected <= lastCall.calls

\* C20: with the API key missing or blank, a call of any exported function
\* throws and issues no request.
C20_NoRequestWithoutKey ==
    lastCall.fn # "none" /\ lastCall.keyMissing
    => lastCall.requests = 0 /\ lastCall.threw # "none"

\* C21: an error that a call of an exported function throws carries one of the
\* service's own codes, never the error of the model request as it came.
C21_ErrorsAreMasked ==
    lastCall.fn # "none" /\ lastCall.threw # "none"
    => lastCall.threw \in {"API_KEY_MISSING", "API_KEY_INVALID", "QUOTA_EXCEEDED",
                           "RATE_LIMIT", "RATE_LIMIT_EXCEEDED", "INVALID_INPUT",
                           "SERVICE_ERROR"}

\* C22: of two chunks whose sources are both scheduled, the one that arrived
\* first has the earlier start time, whatever the order their decodes
\* completed in.
C22_ScheduledInArrivalOrder ==
    \A i, j \in DOMAIN scheduledSourcesRef :
        scheduledSourcesRef[i].seq < scheduledSourcesRef[j].seq
        => scheduledSourcesRef[i].start < scheduledSourcesRef[j].start

\* C23: once an interruption has been processed, no chunk that arrived before
\* it is among the scheduled sources, even if its decode was pending then.
C23_NothingOlderThanInterruption ==
    \A i \in DOMAIN scheduledSourcesRef :
        scheduledSourcesRef[i].seq > interruptedUpTo

\* C24: every source of the list is playing or still to start on its context's
\* clock: a source whose playback has ended is not in the list.
C24_OnlyLiveSources ==
    \A i \in DOMAIN scheduledSourcesRef :
        clock[scheduledSourcesRef[i].ctx]
          < scheduledSourcesRef[i].start + scheduledSourcesRef[i].dur

\* C25: no step lowers nextStartTimeRef except an interruption, which sets it
\* to 0; and the step that schedules a source of duration d at time t leaves it
\* at t + d.
C25_CursorMonotone ==
    [][/\ nextStartTimeRef' < nextStartTimeRef
          => lastEvent'.op = "interrupted" /\ nextStartTimeRef' = 0
       /\ Len(scheduledSourcesRef') = Len(scheduledSourcesRef) + 1
          => LET s == scheduledSourcesRef'[Len(scheduledSourcesRef')]
             IN  nextStartTimeRef' = s.start + s.dur]_vars

\* A third source was scheduled behind two others, ahead of the clock, and the
\* cursor stands at its end.
C25_Witness ==
    /\ lastEvent.op = "scheduled"
    /\ Len(scheduledSourcesRef) = 3
    /\ scheduledSourcesRef[3].start > scheduledSourcesRef[3].at
    /\ nextStartTimeRef = scheduledSourcesRef[3].start + scheduledSourcesRef[3].dur
    /\ flushedSince = -1

\* C26: the first source scheduled on the output context of a later connect()
\* call starts at that context's clock time, not at a time carried over from
\* the session before.
C26_TimelineReanchored ==
    \A i \in DOMAIN scheduledSourcesRef :
        LET s == scheduledSourcesRef[i]
        IN  /\ s.ctx > 1
            /\ session[1] = "closed" /\ outputCtx[1] = "closed"
            /\ session[s.ctx] = "open"
            /\ \A j \in 1..(i - 1) : scheduledSourcesRef[j].ctx # s.ctx
            => s.start = s.at

\* C27: the tasks of the list have pairwise distinct ids, so have the rows of
\* the task store, and the bulkAdd of a recording's tasks does not fail.
C27_TaskIdsUnique ==
    /\ \A i, j \in DOMAIN tasks : i # j => tasks[i].id # tasks[j].id
    /\ \A r, q \in dbTasks : r # q => r.id # q.id
    /\ lastOp.op = "handleStopRecording" => ~lastOp.bulkAddFailed

\* C29: after handleSend on a reply, one task was created for each directive
\* of the reply, from left to right, with the directive's priority or Medium
\* for a word that is none; as many rows are in db.tasks; and the text
\* displayed holds no directive.
C29_EveryDirectiveBecomesATask ==
    lastOp.op = "handleSend" /\ ~lastOp.caught
    => /\ lastOp.created = DirectivesOf(lastOp.reply, 0)
       /\ Cardinality(dbTasks) = Len(DirectivesOf(lastOp.reply, 0))
       /\ ~Exec(messages[Len(messages)].text, 0).found

RECURSIVE DaysBefore(_, _)
DaysBefore(y, m) ==
    IF y <= 2024 /\ m <= 1 THEN 0
    ELSE IF m = 1 THEN DaysBefore(y - 1, 12) + 31
    ELSE DaysBefore(y, m - 1) + DaysIn(y, m - 1)

HoursOf(date) == (DaysBefore(date.y, date.m) + date.d - 1) * 24 + date.h

\* `to` is one period of the recurrence after `from`: an hour, a day, a week,
\* the same time of the next month, the same time of the same month a year on.
OnePeriodLater(from, to, recurrence) ==
    CASE recurrence = "Hourly" -> HoursOf(to) - HoursOf(from) = 1
      [] recurrence = "Daily" -> HoursOf(to) - HoursOf(from) = 24
      [] recurrence = "Weekly" -> HoursOf(to) - HoursOf(from) = 7 * 24
      [] recurrence = "Monthly" ->
           to.y * 12 + to.m = from.y * 12 + from.m + 1 /\ to.h = from.h
      [] recurrence = "Yearly" -> to.y = from.y + 1 /\ to.m = from.m /\ to.h = from.h

\* C30: a toggle of a recurring task that was not completed adds one row to
\* the table and, resumed, one task to the list: a copy that is not completed,
\* with a new id, startedAt null, timeSpent 0 and a due date one period after
\* the task's; the task itself is completed.  Any other toggle adds nothing.
C30_RecurringTaskReturns ==
    /\ lastOp.op = "toggleTask" /\ lastOp.awaiting
       => /\ ~lastOp.before.completed /\ lastOp.before.recurrence # ""
          /\ Cardinality(dbTasks) = Cardinality(lastOp.tableBefore) + 1
          /\ tasks = lastOp.listBefore
    /\ lastOp.op = "toggleTask" /\ ~lastOp.awaiting
       => /\ lastOp.before.completed \/ lastOp.before.recurrence = ""
          /\ Cardinality(dbTasks) = Cardinality(lastOp.tableBefore)
          /\ Len(tasks) = Len(lastOp.listBefore)
    /\ lastOp.op = "toggleResumed"
       => LET old == lastOp.before
              new == lastOp.newTask
          IN  /\ Len(tasks) = Len(lastOp.listBefore) + 1
              /\ \E i \in DOMAIN tasks : tasks[i] = new
              /\ new \in dbTasks
              /\ \A i \in DOMAIN lastOp.listBefore : lastOp.listBefore[i].id # new.id
              /\ \A i \in DOMAIN tasks : tasks[i].id = lastOp.id => tasks[i].completed
              /\ \A r \in dbTasks : r.id = lastOp.id => r.completed
              /\ ~new.completed
              /\ new.startedAt = StartedNull
              /\ new.timeSpent = 0
              /\ new.recurrence = old.recurrence
              /\ new.reminderTime = old.reminderTime
              /\ old.dueDate # NoDate
                 => OnePeriodLater(old.dueDate, new.dueDate, old.recurrence)

====
